---- MODULE Spec2Model ----
(***************************************************************************)
(* Streaming SSTV PD decoder: the orchestrating Decoder, the VIS detector  *)
(* and the PD line demodulator as one state machine over the stream of     *)
(* instantaneous frequencies.                                              *)
(*                                                                         *)
(* One step of the model is one iteration of the per-frequency loop of     *)
(* Decoder::process (or one call of Decoder::reset).  The DSP front end    *)
(* (resampler, band-pass FIR, frequency estimator) is represented by its   *)
(* output, the frequency handed to the loop.  Frequencies are integers in  *)
(* Hz.  Durations are kept in hundredths of a millisecond and timers that  *)
(* carry a fraction in 1/Sub of a sample, so that every comparison of the  *)
(* source (timer >= ms * samples_per_ms) is exact integer arithmetic.      *)
(* Decoder::m_sample_timer is written by process and read nowhere; it is   *)
(* left out.                                                               *)
(***************************************************************************)
EXTENDS Integers, Sequences, FiniteSets, TLC

(***************************************************************************)
(* State                                                                   *)
(***************************************************************************)
VARIABLES
  dec,     \* Decoder: m_state, m_current_mode
  vis,     \* VISDecoder
  pd,      \* PD demodulator
  tx,      \* transmitter
  ch,      \* channel: burst or silence in progress
  faults,  \* bursts so far
  resets,  \* user resets so far
  ev,      \* callbacks fired (and resets run) by the last step, in order
  log,     \* callbacks fired since the last reset of the Decoder (without the pixel data)
  heard,   \* modes of the ModeDetected callbacks since the current transmission began
  dcb,     \* the statics of dc_blocker and the two Decoder instances using them
  fe,      \* front end of the Decoder: estimator, and the current call of process
  twin,    \* a second Decoder, fed the same stream in calls of another size
  calc,    \* a call of one of the pure functions: arguments and result; or the
           \* callbacks of the user that call Decoder::reset
  rs       \* a Resampler and the sizes of its last call of process_block

(***************************************************************************)
(* Bounds of the model                                                     *)
(***************************************************************************)
\* internal sample rate (Hz) of the bounded specifications: 2 ms per sample,
\* so that every VIS tone lasts a whole number of samples as it nearly does at
\* INTERNAL_SAMPLE_RATE, the rate the program runs its protocol components
\* at.  It is a scale, not a size: at a rate where a tone lasts a fraction of
\* a sample more, the detector (which restarts its timer at 0 on every tone)
\* falls a sample behind per tone and the 10 ms break no longer fits the
\* 9-sample median, which at 11025 Hz is under 0.4 ms long.
ModelRate == 1000 \div 2
\* the demodulator is configured with at most this many image lines / pixels
MaxHeight == 3
MaxWidth == 2
\* channel disturbances and user resets per behaviour
MaxFaults == 1
MaxResets == 1
\* a timer that only counts up in a state that never reads it saturates here
\* (in samples)
TimerCap == 2
\* callbacks remembered since the last reset
LogCap == 8

(***************************************************************************)
(* Program constants                                                       *)
(***************************************************************************)
INTERNAL_SAMPLE_RATE == 11025
SYNC_FREQ == 1200
BLACK_FREQ == 1500
WHITE_FREQ == 2300
FREQ_RANGE == WHITE_FREQ - BLACK_FREQ
VIS_LOGIC_0_FREQ == 1300
VIS_LOGIC_1_FREQ == 1100
VIS_START_STOP_FREQ == 1200
VIS_LEADER_BURST_FREQ == 1900
VIS_BREAK_FREQ == 1200
\* durations in 1/100 ms
VIS_LEADER_BURST_DURATION_MS == 30000
VIS_BREAK_DURATION_MS == 1000
VIS_BIT_DURATION_MS == 3000
MAX_ERROR_TIME_MS == 1500
MEDIAN_WINDOW == 9
FREQ_TOLERANCE == 60
\* sub-sample units per sample: cms * rate is a duration in these units
Sub == 1000 * 100

DEFAULT_PREAMBLE_TONES ==
  << [frequency |-> 1900, duration_ms |-> 10000],
     [frequency |-> 1500, duration_ms |-> 10000],
     [frequency |-> 1900, duration_ms |-> 10000],
     [frequency |-> 1500, duration_ms |-> 10000],
     [frequency |-> 2300, duration_ms |-> 10000],
     [frequency |-> 1500, duration_ms |-> 10000],
     [frequency |-> 2300, duration_ms |-> 10000],
     [frequency |-> 1500, duration_ms |-> 10000] >>

SSTVMode(n, c, w, h, d, fam) ==
  [name |-> n, vis_code |-> c, width |-> w, height |-> h,
   duration_s |-> d, family |-> fam]

\* SSTVMode{}: the value-initialised record (SSTVFamily's first enumerator is PD)
EmptyMode == SSTVMode("", 0, 0, 0, 0, "PD")

GLOBAL_VIS_MAP ==
  (95 :> SSTVMode("PD120", 95, 640, 496, 126, "PD")) @@
  (93 :> SSTVMode("PD50",  93, 320, 256, 50,  "PD")) @@
  (99 :> SSTVMode("PD90",  99, 320, 256, 90,  "PD")) @@
  (98 :> SSTVMode("PD160", 98, 512, 400, 161, "PD")) @@
  (96 :> SSTVMode("PD180", 96, 640, 496, 187, "PD")) @@
  (97 :> SSTVMode("PD240", 97, 640, 496, 248, "PD"))

PDTimings(s, p, g) == [sync_ms |-> s, porch_ms |-> p, segment_ms |-> g]

PD_TIMINGS_MAP ==
  (95 :> PDTimings(2000, 208, 12160)) @@
  (93 :> PDTimings(2000, 208, 9152)) @@
  (99 :> PDTimings(2000, 208, 17024)) @@
  (98 :> PDTimings(2000, 208, 19585)) @@
  (96 :> PDTimings(2000, 208, 18304)) @@
  (97 :> PDTimings(2000, 208, 24448))

\* PD120ModeConfig: the configuration of a demodulator before configure()
PD120ModeConfig ==
  [VIS_CODE |-> 95, WIDTH |-> 640, HEIGHT |-> 496,
   SYNC_DURATION_MS |-> 2000, PORCH_DURATION_MS |-> 208,
   SEGMENT_DURATION_MS |-> 12160]

(***************************************************************************)
(* Arithmetic helpers                                                      *)
(***************************************************************************)
Min(a, b) == IF a <= b THEN a ELSE b
Max(a, b) == IF a >= b THEN a ELSE b
Abs(x) == IF x < 0 THEN -x ELSE x
Clamp(x, lo, hi) == IF x < lo THEN lo ELSE IF x > hi THEN hi ELSE x

RECURSIVE Pow2(_)
Pow2(n) == IF n = 0 THEN 1 ELSE 2 * Pow2(n - 1)

\* (v >> i) & 1
BitAt(v, i) == (v \div Pow2(i)) % 2

\* v | (bit << k)
OrShifted(v, bit, k) == IF bit = 1 /\ BitAt(v, k) = 0 THEN v + Pow2(k) ELSE v

\* the user callbacks and Decoder::reset leave a record in the trace of the step
Event(cb, mode, idx, px, wd, ht) ==
  [cb |-> cb, mode |-> mode, line_index |-> idx, pixels |-> px,
   width |-> wd, height |-> ht]

(***************************************************************************)
(* VISDecoder                                                              *)
(***************************************************************************)
\* std::abs(freq - target) < tolerance
is_freq_near(freq, target, tolerance) == Abs(freq - target) < tolerance

\* m_state_timer_samples >= duration_ms * m_samples_per_ms
VisReached(v, cms) == v.m_state_timer_samples * Sub >= cms * v.m_sample_rate

\* ++m_error_count > MAX_ERROR_TIME_MS * m_samples_per_ms
VisTooManyErrors(v) == (v.m_error_count + 1) * Sub > MAX_ERROR_TIME_MS * v.m_sample_rate

\* element size/2 of the sorted window
SortedAt(buf, k) ==
  CHOOSE x \in {buf[i] : i \in 1..Len(buf)} :
    /\ Cardinality({i \in 1..Len(buf) : buf[i] < x}) <= k
    /\ Cardinality({i \in 1..Len(buf) : buf[i] <= x}) > k

MedianPush(buf, raw_freq) ==
  LET b1 == Append(buf, raw_freq)
  IN IF Len(b1) > MEDIAN_WINDOW THEN Tail(b1) ELSE b1

\* a variant: no smoothing, the newest raw sample
get_smoothed_freq_Raw(buf) == buf[Len(buf)]

get_smoothed_freq(buf) == SortedAt(buf, Len(buf) \div 2)

\* faulty variant: reset leaves the bit counter and the decoded bits
VIS_reset_KeepsBits(v) ==
  [v EXCEPT !.m_state = "IDLE",
            !.m_state_timer_samples = 0,
            !.m_preamble_step = 0,
            !.m_error_count = 0,
            !.m_bit_freq_accumulator = 0,
            !.m_bit_sample_count = 0]

VIS_reset(v) ==
  [v EXCEPT !.m_state = "IDLE",
            !.m_state_timer_samples = 0,
            !.m_preamble_step = 0,
            !.m_error_count = 0,
            !.m_decoded_vis_bits = 0,
            !.m_bit_count = 0,
            !.m_bit_freq_accumulator = 0,
            !.m_bit_sample_count = 0]

transition_to(v, new_state) ==
  [v EXCEPT !.m_state = new_state,
            !.m_state_timer_samples = 0,
            !.m_error_count = 0,
            !.m_bit_freq_accumulator = 0,
            !.m_bit_sample_count = 0]

\* the else branch shared by the tone states: if (++m_error_count > ...) reset();
VisToneError(v) ==
  IF VisTooManyErrors(v) THEN VIS_reset(v)
  ELSE [v EXCEPT !.m_error_count = @ + 1]

\* LEADER_BURST_1, BREAK_1200, LEADER_BURST_2, START_BIT
VisToneState(v, freq, target, cms, next) ==
  IF is_freq_near(freq, target, FREQ_TOLERANCE)
  THEN IF VisReached(v, cms) THEN transition_to(v, next) ELSE v
  ELSE VisToneError(v)

\* faulty variant: the first preamble tone alone leads to the leader burst
VisIdle_SkipPreamble(v, freq) ==
  IF is_freq_near(freq, DEFAULT_PREAMBLE_TONES[1].frequency, FREQ_TOLERANCE)
  THEN IF VisReached(v, DEFAULT_PREAMBLE_TONES[1].duration_ms - 500)
       THEN transition_to([v EXCEPT !.m_preamble_step = 1], "LEADER_BURST_1")
       ELSE v
  ELSE [v EXCEPT !.m_state_timer_samples = 0]

VisIdle(v, freq) ==
  IF is_freq_near(freq, DEFAULT_PREAMBLE_TONES[1].frequency, FREQ_TOLERANCE)
  THEN IF VisReached(v, DEFAULT_PREAMBLE_TONES[1].duration_ms - 500)
       THEN transition_to([v EXCEPT !.m_preamble_step = 1], "PREAMBLE")
       ELSE v
  ELSE [v EXCEPT !.m_state_timer_samples = 0]

VisPreamble(v, freq) ==
  LET target_tone == DEFAULT_PREAMBLE_TONES[v.m_preamble_step + 1]
  IN IF is_freq_near(freq, target_tone.frequency, FREQ_TOLERANCE)
     THEN IF VisReached(v, target_tone.duration_ms)
          THEN LET v1 == [v EXCEPT !.m_preamble_step = @ + 1,
                                   !.m_error_count = 0,
                                   !.m_state_timer_samples = 0]
               IN IF v1.m_preamble_step >= Len(DEFAULT_PREAMBLE_TONES)
                  THEN transition_to(v1, "LEADER_BURST_1")
                  ELSE v1
          ELSE v
     ELSE VisToneError(v)

\* faulty variant: the k-th received bit is stored MSB first
VisDataBits_MsbFirst(v, freq) ==
  LET v1 == [v EXCEPT !.m_bit_freq_accumulator = @ + freq,
                      !.m_bit_sample_count = @ + 1]
  IN IF VisReached(v1, VIS_BIT_DURATION_MS)
     THEN LET bit == IF v1.m_bit_freq_accumulator < 1200 * v1.m_bit_sample_count
                     THEN 1 ELSE 0
              v2 == [v1 EXCEPT !.m_decoded_vis_bits = OrShifted(@, bit, 6 - v1.m_bit_count),
                               !.m_bit_count = @ + 1,
                               !.m_state_timer_samples = 0,
                               !.m_bit_freq_accumulator = 0,
                               !.m_bit_sample_count = 0]
          IN IF v2.m_bit_count >= 7 THEN transition_to(v2, "PARITY_BIT") ELSE v2
     ELSE v1

VisDataBits(v, freq) ==
  LET v1 == [v EXCEPT !.m_bit_freq_accumulator = @ + freq,
                      !.m_bit_sample_count = @ + 1]
  IN IF VisReached(v1, VIS_BIT_DURATION_MS)
     THEN LET bit == IF v1.m_bit_freq_accumulator < 1200 * v1.m_bit_sample_count
                     THEN 1 ELSE 0
              v2 == [v1 EXCEPT !.m_decoded_vis_bits = OrShifted(@, bit, v1.m_bit_count),
                               !.m_bit_count = @ + 1,
                               !.m_state_timer_samples = 0,
                               !.m_bit_freq_accumulator = 0,
                               !.m_bit_sample_count = 0]
          IN IF v2.m_bit_count >= 7 THEN transition_to(v2, "PARITY_BIT") ELSE v2
     ELSE v1

\* number of 1s among the 7 decoded bits
Ones(bits) == Cardinality({i \in 0..6 : BitAt(bits, i) = 1})

\* faulty variant: the parity bit is received but not compared
VisParityBit_Unchecked(v, freq) ==
  LET v1 == [v EXCEPT !.m_bit_freq_accumulator = @ + freq,
                      !.m_bit_sample_count = @ + 1]
  IN IF VisReached(v1, VIS_BIT_DURATION_MS)
     THEN transition_to(v1, "STOP_BIT")
     ELSE v1

VisParityBit(v, freq) ==
  LET v1 == [v EXCEPT !.m_bit_freq_accumulator = @ + freq,
                      !.m_bit_sample_count = @ + 1]
  IN IF VisReached(v1, VIS_BIT_DURATION_MS)
     THEN LET p_bit == IF Abs(v1.m_bit_freq_accumulator
                              - VIS_LOGIC_1_FREQ * v1.m_bit_sample_count)
                           < 80 * v1.m_bit_sample_count
                       THEN 1 ELSE 0
              parity_ok == (Ones(v1.m_decoded_vis_bits) + p_bit) % 2 = 0
          IN IF parity_ok THEN transition_to(v1, "STOP_BIT") ELSE VIS_reset(v1)
     ELSE v1

\* the mode handed to m_on_mode_detected at the end of the stop bit
VisDetectedMode(bits) ==
  IF bits \in DOMAIN GLOBAL_VIS_MAP THEN GLOBAL_VIS_MAP[bits]
  ELSE SSTVMode("Unknown", bits, 0, 0, 0, "UNKNOWN")

(***************************************************************************)
(* PD demodulator.  The state machine is PD120Demodulator's; width, height *)
(* and the three durations are the fields that configure() sets.  The      *)
(* field fresh is auxiliary: the pixel vectors stored since the            *)
(* demodulator last entered SYNC.                                          *)
(***************************************************************************)
\* faulty variant: the pixel vectors survive the reset
PD_reset_KeepPixels(p) ==
  [p EXCEPT !.m_current_segment = "IDLE",
            !.m_segment_timer = 0,
            !.m_current_line_idx = 0,
            !.m_segment_buffer = <<>>,
            !.fresh = {}]

PD_reset(p) ==
  [p EXCEPT !.m_current_segment = "IDLE",
            !.m_segment_timer = 0,
            !.m_current_line_idx = 0,
            !.m_segment_buffer = <<>>,
            !.m_y1_pixels = <<>>,
            !.m_y2_pixels = <<>>,
            !.m_cr_pixels = <<>>,
            !.m_cb_pixels = <<>>,
            !.fresh = {}]

\* PDDemodulator::configure(mode, timings): the image size (within the bounds
\* max_width, max_height that the demodulator of the model carries) and the
\* timings of the detected mode
configure(p, mode, timings) ==
  [p EXCEPT !.m_width = Min(mode.width, p.max_width),
            !.m_height = Min(mode.height, p.max_height),
            !.m_timings = timings]

\* dc_blocker(input) on the two static variables st = [prev_input,
\* prev_output] of the function, which every FrequencyEstimator of the process
\* shares; samples in 1/1000 of full scale, alpha = 0.995.  The result is the
\* new value of the statics, its prev_output being the value returned.
dc_blocker(st, input) ==
  LET output == input - st.prev_input + (995 * st.prev_output) \div 1000
  IN [prev_input |-> input, prev_output |-> output]

\* faulty variant: the quotient is cast to uint8_t without the range tests
freq_to_pixel_value_Wrap(frequency) ==
  (((frequency - BLACK_FREQ) * 255) \div FREQ_RANGE) % 256

freq_to_pixel_value(frequency) ==
  IF frequency < BLACK_FREQ THEN 0
  ELSE IF frequency > WHITE_FREQ THEN 255
  ELSE Clamp(((frequency - BLACK_FREQ) * 255) \div FREQ_RANGE, 0, 255)

resample_segment(buffer, target_count) ==
  IF Len(buffer) = 0 THEN [i \in 1..target_count |-> 0]
  ELSE [i \in 1..target_count |->
          LET pos == ((i - 1) * Len(buffer)) \div target_count
              idx == Clamp(pos, 0, Len(buffer) - 1)
          IN freq_to_pixel_value(buffer[idx + 1])]

\* x >> 8 on a signed int
Shr8(x) == x \div 256

\* faulty variant: the channels are cast to uint8_t without std::clamp
ycbcr_to_rgb_NoClamp(Y, Cb, Cr) ==
  LET y == Y - 16
      cb == Cb - 128
      cr == Cr - 128
      r == Shr8(298 * y + 409 * cr + 128)
      g == Shr8(298 * y - 100 * cb - 208 * cr + 128)
      b == Shr8(298 * y + 516 * cb + 128)
  IN [r |-> r % 256, g |-> g % 256, b |-> b % 256]

ycbcr_to_rgb(Y, Cb, Cr) ==
  LET y == Y - 16
      cb == Cb - 128
      cr == Cr - 128
      r == Shr8(298 * y + 409 * cr + 128)
      g == Shr8(298 * y - 100 * cb - 208 * cr + 128)
      b == Shr8(298 * y + 516 * cb + 128)
  IN [r |-> Clamp(r, 0, 255), g |-> Clamp(g, 0, 255), b |-> Clamp(b, 0, 255)]

process_current_segment(p) ==
  LET pixels == resample_segment(p.m_segment_buffer, p.m_width)
  IN CASE p.m_current_segment = "Y1" ->
            [p EXCEPT !.m_y1_pixels = pixels, !.fresh = @ \cup {"y1"}]
       [] p.m_current_segment = "RY" ->
            [p EXCEPT !.m_cr_pixels = pixels, !.fresh = @ \cup {"cr"}]
       [] p.m_current_segment = "BY" ->
            [p EXCEPT !.m_cb_pixels = pixels, !.fresh = @ \cup {"cb"}]
       [] p.m_current_segment = "Y2" ->
            [p EXCEPT !.m_y2_pixels = pixels, !.fresh = @ \cup {"y2"}]
       [] OTHER -> p

(***************************************************************************)
(* Decoder: the handlers behind the callbacks of the two components.  The  *)
(* operators below act on the whole decoder w = [dec, vis, pd] together    *)
(* with ev, the callbacks fired so far in the step.                        *)
(***************************************************************************)
Decoder_reset(w) ==
  [w EXCEPT !.dec = [m_state |-> "SEARCHING_VIS", m_current_mode |-> EmptyMode],
            !.vis = VIS_reset(@),
            !.pd = PD_reset(@),
            !.ev = Append(@, Event("Reset", EmptyMode, 0, <<>>, 0, 0))]

\* faulty variant: every PD mode is configured with the PD120 timings
handle_mode_detected_Pd120Timings(w, mode) ==
  LET w1 == [w EXCEPT !.dec.m_current_mode = mode,
                      !.ev = Append(@, Event("ModeDetected", mode, 0, <<>>, 0, 0))]
  IN IF mode.family = "PD"
     THEN IF mode.vis_code \in DOMAIN PD_TIMINGS_MAP
          THEN [w1 EXCEPT !.pd = configure(@, mode, PD_TIMINGS_MAP[PD120ModeConfig.VIS_CODE]),
                          !.dec.m_state = "DECODING_IMAGE_DATA"]
          ELSE w1
     ELSE Decoder_reset(w1)

\* faulty variant: an unsupported family is ignored instead of resetting
handle_mode_detected_NoReset(w, mode) ==
  LET w1 == [w EXCEPT !.dec.m_current_mode = mode,
                      !.ev = Append(@, Event("ModeDetected", mode, 0, <<>>, 0, 0))]
  IN IF mode.family = "PD"
     THEN IF mode.vis_code \in DOMAIN PD_TIMINGS_MAP
          THEN [w1 EXCEPT !.pd = configure(@, mode, PD_TIMINGS_MAP[mode.vis_code]),
                          !.dec.m_state = "DECODING_IMAGE_DATA"]
          ELSE w1
     ELSE w1

\* the callbacks of the user that call Decoder::reset on the Decoder that
\* invoked them: those calc.in lists where calc.op is "callbacks", none
\* otherwise
UserResetsIn(cb) ==
  /\ calc.op = "callbacks"
  /\ \E i \in DOMAIN calc.in : calc.in[i] = cb

\* m_on_mode_detected_cb(mode): the callback of the user
m_on_mode_detected_cb(w, mode) ==
  LET w1 == [w EXCEPT !.ev = Append(@, Event("ModeDetected", mode, 0, <<>>, 0, 0))]
  IN IF UserResetsIn("ModeDetected") THEN Decoder_reset(w1) ELSE w1

\* m_on_image_complete_cb(width, height): the callback of the user
m_on_image_complete_cb(w, width, height) ==
  LET w1 == [w EXCEPT !.ev = Append(@, Event("ImageComplete", EmptyMode, 0, <<>>,
                                             width, height))]
  IN IF UserResetsIn("ImageComplete") THEN Decoder_reset(w1) ELSE w1

\* the switch reads m_current_mode after the callback of the user has run
handle_mode_detected(w, mode) ==
  LET w1 == m_on_mode_detected_cb([w EXCEPT !.dec.m_current_mode = mode], mode)
      cur == w1.dec.m_current_mode
  IN IF cur.family = "PD"
     THEN IF cur.vis_code \in DOMAIN PD_TIMINGS_MAP
          THEN [w1 EXCEPT !.pd = configure(@, cur, PD_TIMINGS_MAP[cur.vis_code]),
                          !.dec.m_state = "DECODING_IMAGE_DATA"]
          ELSE w1
     ELSE Decoder_reset(w1)

handle_line_decoded(w, line_idx, pixels) ==
  [w EXCEPT !.ev = Append(@, Event("LineDecoded", EmptyMode, line_idx, pixels, 0, 0))]

\* faulty variant: the Decoder stays in DECODING_IMAGE_DATA
handle_image_complete_NoStateChange(w, width, height) ==
  [w EXCEPT !.ev = Append(@, Event("ImageComplete", EmptyMode, 0, <<>>, width, height))]

handle_image_complete(w, width, height) ==
  [m_on_image_complete_cb(w, width, height) EXCEPT !.dec.m_state = "IMAGE_COMPLETE"]

\* faulty variant: the chroma arguments are exchanged
LineOf_SwappedChroma(p, Y) ==
  [i \in 1..p.m_width |-> ycbcr_to_rgb(Y[i], p.m_cr_pixels[i], p.m_cb_pixels[i])]

\* one line of a group: luma vector Y with the shared chroma vectors
LineOf(p, Y) ==
  [i \in 1..p.m_width |-> ycbcr_to_rgb(Y[i], p.m_cb_pixels[i], p.m_cr_pixels[i])]

\* faulty variant: m_on_line_decoded(++m_current_line_idx, line)
EmitLine_PreIncrement(w, Y) ==
  IF w.pd.m_current_line_idx < w.pd.m_height
  THEN handle_line_decoded([w EXCEPT !.pd.m_current_line_idx = @ + 1],
                           w.pd.m_current_line_idx + 1, LineOf(w.pd, Y))
  ELSE w

\* faulty variant: no test of the line index against the height
EmitLine_Unguarded(w, Y) ==
  handle_line_decoded([w EXCEPT !.pd.m_current_line_idx = @ + 1],
                      w.pd.m_current_line_idx, LineOf(w.pd, Y))

EmitLine(w, Y) ==
  IF w.pd.m_current_line_idx < w.pd.m_height
  THEN handle_line_decoded([w EXCEPT !.pd.m_current_line_idx = @ + 1],
                           w.pd.m_current_line_idx, LineOf(w.pd, Y))
  ELSE w

finalize_line_group(w) ==
  IF \/ Len(w.pd.m_y1_pixels) = 0 \/ Len(w.pd.m_y2_pixels) = 0
     \/ Len(w.pd.m_cr_pixels) = 0 \/ Len(w.pd.m_cb_pixels) = 0
  THEN w
  ELSE LET w1 == EmitLine(w, w.pd.m_y1_pixels)
           w2 == EmitLine(w1, w1.pd.m_y2_pixels)
       IN IF w2.pd.m_current_line_idx >= w2.pd.m_height
          THEN handle_image_complete(w2, w2.pd.m_width, w2.pd.m_height)
          ELSE w2

\* durations of the configured mode in 1/Sub of a sample
PdDur(p, cms) == cms * p.m_sample_rate

\* faulty variant: the tolerance is inclusive
PdIdle_Inclusive(w, freq) ==
  IF Abs(freq - SYNC_FREQ) <= FREQ_TOLERANCE
  THEN [w EXCEPT !.pd.m_current_segment = "SYNC",
                 !.pd.m_segment_timer = 0,
                 !.pd.fresh = {}]
  ELSE w

PdIdle(w, freq) ==
  IF Abs(freq - SYNC_FREQ) < FREQ_TOLERANCE
  THEN [w EXCEPT !.pd.m_current_segment = "SYNC",
                 !.pd.m_segment_timer = 0,
                 !.pd.fresh = {}]
  ELSE w

\* faulty variant: SYNC ends on its timer only, never on the porch tone
PdSync_TimeoutOnly(w, freq) ==
  LET p == w.pd
  IN IF p.m_segment_timer >= PdDur(p, p.m_timings.sync_ms)
     THEN [w EXCEPT !.pd.m_current_segment = "PORCH", !.pd.m_segment_timer = 0]
     ELSE IF /\ Abs(freq - SYNC_FREQ) > FREQ_TOLERANCE * 2
             /\ p.m_segment_timer < PdDur(p, 500)
     THEN [w EXCEPT !.pd.m_current_segment = "IDLE"]
     ELSE w

\* faulty variant: the early change to PORCH keeps the timer
PdSync_SmartKeepsTimer(w, freq) ==
  LET p == w.pd
  IN IF p.m_segment_timer >= PdDur(p, p.m_timings.sync_ms)
     THEN [w EXCEPT !.pd.m_current_segment = "PORCH", !.pd.m_segment_timer = 0]
     ELSE IF /\ p.m_segment_timer > PdDur(p, 1500)
             /\ Abs(freq - BLACK_FREQ) < FREQ_TOLERANCE
     THEN [w EXCEPT !.pd.m_current_segment = "PORCH"]
     ELSE IF /\ Abs(freq - SYNC_FREQ) > FREQ_TOLERANCE * 2
             /\ p.m_segment_timer < PdDur(p, 500)
     THEN [w EXCEPT !.pd.m_current_segment = "IDLE"]
     ELSE w

\* faulty variant: a sync pulse lost in its first 5 ms resets the Decoder
PdSync_AbortImage(w, freq) ==
  LET p == w.pd
  IN IF p.m_segment_timer >= PdDur(p, p.m_timings.sync_ms)
     THEN [w EXCEPT !.pd.m_current_segment = "PORCH", !.pd.m_segment_timer = 0]
     ELSE IF /\ p.m_segment_timer > PdDur(p, 1500)
             /\ Abs(freq - BLACK_FREQ) < FREQ_TOLERANCE
     THEN [w EXCEPT !.pd.m_current_segment = "PORCH", !.pd.m_segment_timer = 0]
     ELSE IF /\ Abs(freq - SYNC_FREQ) > FREQ_TOLERANCE * 2
             /\ p.m_segment_timer < PdDur(p, 500)
     THEN Decoder_reset(w)
     ELSE w

\* faulty variant: an off-sync frequency restarts the sync pulse at any time
PdSync_RestartsOnNoise(w, freq) ==
  LET p == w.pd
  IN IF p.m_segment_timer >= PdDur(p, p.m_timings.sync_ms)
     THEN [w EXCEPT !.pd.m_current_segment = "PORCH", !.pd.m_segment_timer = 0]
     ELSE IF /\ p.m_segment_timer > PdDur(p, 1500)
             /\ Abs(freq - BLACK_FREQ) < FREQ_TOLERANCE
     THEN [w EXCEPT !.pd.m_current_segment = "PORCH", !.pd.m_segment_timer = 0]
     ELSE IF Abs(freq - SYNC_FREQ) > FREQ_TOLERANCE * 2
     THEN [w EXCEPT !.pd.m_segment_timer = 0]
     ELSE w

\* faulty variant: an off-sync frequency aborts the sync pulse at any time
PdSync_AbortAnytime(w, freq) ==
  LET p == w.pd
  IN IF p.m_segment_timer >= PdDur(p, p.m_timings.sync_ms)
     THEN [w EXCEPT !.pd.m_current_segment = "PORCH", !.pd.m_segment_timer = 0]
     ELSE IF /\ p.m_segment_timer > PdDur(p, 1500)
             /\ Abs(freq - BLACK_FREQ) < FREQ_TOLERANCE
     THEN [w EXCEPT !.pd.m_current_segment = "PORCH", !.pd.m_segment_timer = 0]
     ELSE IF Abs(freq - SYNC_FREQ) > FREQ_TOLERANCE * 2
     THEN [w EXCEPT !.pd.m_current_segment = "IDLE"]
     ELSE w

PdSync(w, freq) ==
  LET p == w.pd
  IN IF p.m_segment_timer >= PdDur(p, p.m_timings.sync_ms)
     THEN [w EXCEPT !.pd.m_current_segment = "PORCH", !.pd.m_segment_timer = 0]
     ELSE IF /\ p.m_segment_timer > PdDur(p, 1500)
             /\ Abs(freq - BLACK_FREQ) < FREQ_TOLERANCE
     THEN [w EXCEPT !.pd.m_current_segment = "PORCH", !.pd.m_segment_timer = 0]
     ELSE IF /\ Abs(freq - SYNC_FREQ) > FREQ_TOLERANCE * 2
             /\ p.m_segment_timer < PdDur(p, 500)
     THEN [w EXCEPT !.pd.m_current_segment = "IDLE"]
     ELSE w

\* faulty variant: Y1 begins with the timer PORCH left
PdPorch_KeepsTimer(w, freq) ==
  LET p == w.pd
  IN IF p.m_segment_timer >= PdDur(p, p.m_timings.porch_ms)
     THEN [w EXCEPT !.pd.m_current_segment = "Y1",
                    !.pd.m_segment_buffer = <<>>]
     ELSE w

PdPorch(w, freq) ==
  LET p == w.pd
  IN IF p.m_segment_timer >= PdDur(p, p.m_timings.porch_ms)
     THEN [w EXCEPT !.pd.m_current_segment = "Y1",
                    !.pd.m_segment_timer = 0,
                    !.pd.m_segment_buffer = <<>>]
     ELSE w

NextSegment(seg) ==
  CASE seg = "Y1" -> "RY" [] seg = "RY" -> "BY" [] seg = "BY" -> "Y2" [] OTHER -> seg

\* faulty variant: the line group is finalised at the end of every data segment
PdData_FinalizeEverySegment(w, freq) ==
  LET w1 == [w EXCEPT !.pd.m_segment_buffer = Append(@, freq)]
      segment_duration_samples == PdDur(w1.pd, w1.pd.m_timings.segment_ms)
  IN IF w1.pd.m_segment_timer >= segment_duration_samples
     THEN LET w2 == finalize_line_group([w1 EXCEPT !.pd = process_current_segment(@)])
          IN IF w2.pd.m_current_segment = "Y2"
             THEN [w2 EXCEPT !.pd.m_current_segment = "IDLE",
                             !.pd.m_segment_timer = 0,
                             !.pd.m_segment_buffer = <<>>]
             ELSE [w2 EXCEPT !.pd.m_current_segment = NextSegment(@),
                             !.pd.m_segment_timer = @ - segment_duration_samples,
                             !.pd.m_segment_buffer = <<>>]
     ELSE w1

\* faulty variant: the timer restarts from zero at the end of every segment
PdData_NoCarry(w, freq) ==
  LET w1 == [w EXCEPT !.pd.m_segment_buffer = Append(@, freq)]
      segment_duration_samples == PdDur(w1.pd, w1.pd.m_timings.segment_ms)
  IN IF w1.pd.m_segment_timer >= segment_duration_samples
     THEN LET w2 == [w1 EXCEPT !.pd = process_current_segment(@)]
          IN IF w2.pd.m_current_segment = "Y2"
             THEN [finalize_line_group(w2) EXCEPT !.pd.m_current_segment = "IDLE",
                                                  !.pd.m_segment_timer = 0,
                                                  !.pd.m_segment_buffer = <<>>]
             ELSE [w2 EXCEPT !.pd.m_current_segment = NextSegment(@),
                             !.pd.m_segment_timer = 0,
                             !.pd.m_segment_buffer = <<>>]
     ELSE w1

PdData(w, freq) ==
  LET w1 == [w EXCEPT !.pd.m_segment_buffer = Append(@, freq)]
      segment_duration_samples == PdDur(w1.pd, w1.pd.m_timings.segment_ms)
  IN IF w1.pd.m_segment_timer >= segment_duration_samples
     THEN LET w2 == [w1 EXCEPT !.pd = process_current_segment(@)]
          IN IF w2.pd.m_current_segment = "Y2"
             THEN [finalize_line_group(w2) EXCEPT !.pd.m_current_segment = "IDLE",
                                                  !.pd.m_segment_timer = 0,
                                                  !.pd.m_segment_buffer = <<>>]
             ELSE [w2 EXCEPT !.pd.m_current_segment = NextSegment(@),
                             !.pd.m_segment_timer = @ - segment_duration_samples,
                             !.pd.m_segment_buffer = <<>>]
     ELSE w1

\* m_segment_timer += 1.0; IDLE never reads the timer, where it saturates
PdTick(p) ==
  IF p.m_current_segment = "IDLE"
  THEN [p EXCEPT !.m_segment_timer = Min(@ + Sub, Max(@, TimerCap * Sub))]
  ELSE [p EXCEPT !.m_segment_timer = @ + Sub]

PD_process_frequency(w, freq) ==
  LET w1 == [w EXCEPT !.pd = PdTick(@)]
      seg == w1.pd.m_current_segment
  IN CASE seg = "IDLE" -> PdIdle(w1, freq)
       [] seg = "SYNC" -> PdSync(w1, freq)
       [] seg = "PORCH" -> PdPorch(w1, freq)
       [] OTHER -> PdData(w1, freq)

\* m_state_timer_samples += 1.0; COMPLETE never reads the timer
VisTick(v) ==
  IF v.m_state = "COMPLETE"
  THEN [v EXCEPT !.m_state_timer_samples = Min(@ + 1, Max(@, TimerCap))]
  ELSE [v EXCEPT !.m_state_timer_samples = @ + 1]

VisStopBit(w, freq) ==
  LET v == w.vis
  IN IF is_freq_near(freq, VIS_START_STOP_FREQ, FREQ_TOLERANCE)
     THEN IF VisReached(v, VIS_BIT_DURATION_MS)
          THEN [handle_mode_detected(w, VisDetectedMode(v.m_decoded_vis_bits))
                  EXCEPT !.vis.m_state = "COMPLETE"]
          ELSE w
     ELSE [w EXCEPT !.vis = VisToneError(v)]

VIS_process_frequency(w, raw_freq) ==
  LET buf == MedianPush(w.vis.m_median_buffer, raw_freq)
      freq == get_smoothed_freq(buf)
      v == VisTick([w.vis EXCEPT !.m_median_buffer = buf])
      w1 == [w EXCEPT !.vis = v]
      st == v.m_state
  IN IF freq < 100 THEN [w1 EXCEPT !.vis = VIS_reset(v)]
     ELSE CASE st = "IDLE" -> [w1 EXCEPT !.vis = VisIdle(v, freq)]
            [] st = "PREAMBLE" -> [w1 EXCEPT !.vis = VisPreamble(v, freq)]
            [] st = "LEADER_BURST_1" ->
                 [w1 EXCEPT !.vis = VisToneState(v, freq, VIS_LEADER_BURST_FREQ,
                                       VIS_LEADER_BURST_DURATION_MS, "BREAK_1200")]
            [] st = "BREAK_1200" ->
                 [w1 EXCEPT !.vis = VisToneState(v, freq, VIS_BREAK_FREQ,
                                       VIS_BREAK_DURATION_MS, "LEADER_BURST_2")]
            [] st = "LEADER_BURST_2" ->
                 [w1 EXCEPT !.vis = VisToneState(v, freq, VIS_LEADER_BURST_FREQ,
                                       VIS_LEADER_BURST_DURATION_MS, "START_BIT")]
            [] st = "START_BIT" ->
                 [w1 EXCEPT !.vis = VisToneState(v, freq, VIS_START_STOP_FREQ,
                                       VIS_BIT_DURATION_MS, "DATA_BITS")]
            [] st = "DATA_BITS" -> [w1 EXCEPT !.vis = VisDataBits(v, freq)]
            [] st = "PARITY_BIT" -> [w1 EXCEPT !.vis = VisParityBit(v, freq)]
            [] st = "STOP_BIT" -> VisStopBit(w1, freq)
            [] OTHER -> w1

\* faulty variant: case SEARCHING_VIS falls through into DECODING_IMAGE_DATA
Decoder_process_frequency_Fallthrough(w, freq) ==
  CASE w.dec.m_state = "SEARCHING_VIS" ->
         LET w1 == VIS_process_frequency(w, freq)
         IN IF w1.dec.m_current_mode.family = "PD"
            THEN PD_process_frequency(w1, freq)
            ELSE Decoder_reset(w1)
    [] w.dec.m_state = "DECODING_IMAGE_DATA" ->
         IF w.dec.m_current_mode.family = "PD"
         THEN PD_process_frequency(w, freq)
         ELSE Decoder_reset(w)
    [] w.dec.m_state = "IMAGE_COMPLETE" -> w
    [] w.dec.m_state = "DECODING_IMAGE_HEADER" ->
         [w EXCEPT !.dec.m_state = "DECODING_IMAGE_DATA"]

\* faulty variant: IMAGE_COMPLETE hunts for the next VIS by itself
Decoder_process_frequency_HuntWhenComplete(w, freq) ==
  CASE w.dec.m_state = "SEARCHING_VIS" -> VIS_process_frequency(w, freq)
    [] w.dec.m_state = "DECODING_IMAGE_DATA" ->
         IF w.dec.m_current_mode.family = "PD"
         THEN PD_process_frequency(w, freq)
         ELSE Decoder_reset(w)
    [] w.dec.m_state = "IMAGE_COMPLETE" -> VIS_process_frequency(w, freq)
    [] w.dec.m_state = "DECODING_IMAGE_HEADER" ->
         [w EXCEPT !.dec.m_state = "DECODING_IMAGE_DATA"]

\* the body of the loop of Decoder::process for one estimated frequency
Decoder_process_frequency(w, freq) ==
  CASE w.dec.m_state = "SEARCHING_VIS" -> VIS_process_frequency(w, freq)
    [] w.dec.m_state = "DECODING_IMAGE_DATA" ->
         IF w.dec.m_current_mode.family = "PD"
         THEN PD_process_frequency(w, freq)
         ELSE Decoder_reset(w)
    [] w.dec.m_state = "IMAGE_COMPLETE" -> w
    [] w.dec.m_state = "DECODING_IMAGE_HEADER" ->
         [w EXCEPT !.dec.m_state = "DECODING_IMAGE_DATA"]

(***************************************************************************)
(* Decoder::process with its frequency estimator.  Of the estimator the    *)
(* model keeps the sample count behind its warm-up test (counted up to one *)
(* past DEFAULT_HILBERT_TAPS, beyond which the test no longer changes);    *)
(* past the warm-up its estimate for a sample of a tone is the frequency   *)
(* of the tone.  A Decoder with its front end is the record d = [dec, vis, *)
(* pd, ev, est, cleared, blk, pos]: the current call of process has blk    *)
(* samples, pos of them dispatched, and cleared tells that reset() ran     *)
(* during the dispatch loop of the call.  process estimates the whole      *)
(* block before it dispatches any of it, so a reset() inside the loop      *)
(* clears the estimator after the block's last sample was estimated.       *)
(***************************************************************************)
DEFAULT_HILBERT_TAPS == 63

\* FrequencyEstimator after its constructor or clear()
NewEstimator == [m_samples_processed |-> 0]

Estimator_clear(est) == [est EXCEPT !.m_samples_processed = 0]

\* an estimator that has processed more than DEFAULT_HILBERT_TAPS samples
WarmEstimator == [m_samples_processed |-> DEFAULT_HILBERT_TAPS + 1]

\* FrequencyEstimator::process_sample on a sample of a tone of frequency f
Estimator_process_sample(est, f) ==
  LET n == Min(est.m_samples_processed + 1, DEFAULT_HILBERT_TAPS + 1)
  IN [est |-> [est EXCEPT !.m_samples_processed = n],
      freq |-> IF n <= DEFAULT_HILBERT_TAPS THEN 0 ELSE f]

\* Decoder::reset ran among the operations es
ResetRan(es) == \E i \in 1..Len(es) : es[i].cb = "Reset"

\* the next sample of the current call of Decoder::process, a sample of a tone
\* of frequency f: its estimate and its iteration of the dispatch loop
Decoder_process_sample(d, f) ==
  LET e == Estimator_process_sample(d.est, f)
      w == Decoder_process_frequency(
             [dec |-> d.dec, vis |-> d.vis, pd |-> d.pd, ev |-> <<>>], e.freq)
      cleared == d.cleared \/ ResetRan(w.ev)
      last == d.pos + 1 >= d.blk
  IN [dec |-> w.dec, vis |-> w.vis, pd |-> w.pd, ev |-> w.ev,
      est |-> IF last /\ cleared THEN Estimator_clear(e.est) ELSE e.est,
      cleared |-> cleared /\ ~last,
      blk |-> d.blk,
      pos |-> IF last THEN 0 ELSE d.pos + 1]

(***************************************************************************)
(* Resampler.  Of the samples only their number matters here: m_history is *)
(* the length of the history vector.  m_ratio is input_rate / target_rate, *)
(* so m_output_index_frac is kept as a multiple of 1 / m_target_rate (its  *)
(* numerator), exactly.  count and produced are the sizes of the input and *)
(* of the output of the last call of process_block, calls the number of    *)
(* calls since the constructor or reset().  Auxiliary: fed and made are    *)
(* the numbers of input and output samples since the constructor or        *)
(* reset(), and origin is the position in the input stream (the 16 zeros   *)
(* of reset() first) that the head of m_history stands for.                *)
(***************************************************************************)
m_taps_per_phase == 16

Resampler_reset(r) ==
  [r EXCEPT !.m_history = m_taps_per_phase,
            !.m_output_index_frac = 0,
            !.calls = 0,
            !.fed = 0, !.made = 0, !.origin = 0]

NewResampler(input_rate, target_rate) ==
  Resampler_reset([m_input_rate |-> input_rate, m_target_rate |-> target_rate,
                   m_history |-> 0, m_output_index_frac |-> 0,
                   count |-> 0, produced |-> 0, calls |-> 0,
                   fed |-> 0, made |-> 0, origin |-> 0])

\* the while loop of process_block, n samples pushed to the output so far
RECURSIVE ResampleLoop(_, _, _)
ResampleLoop(r, total_samples, n) ==
  LET base_idx == r.m_output_index_frac \div r.m_target_rate
  IN IF base_idx + m_taps_per_phase > total_samples
     THEN [r |-> r, n |-> n]
     ELSE ResampleLoop([r EXCEPT !.m_output_index_frac = @ + r.m_input_rate],
                       total_samples, n + 1)

Resampler_process_block(r, count) ==
  LET total_samples == r.m_history + count
      l == ResampleLoop(r, total_samples, 0)
      processed_int == l.r.m_output_index_frac \div r.m_target_rate
  IN [l.r EXCEPT !.m_output_index_frac = @ - processed_int * r.m_target_rate,
                 !.m_history = IF processed_int < total_samples
                               THEN total_samples - processed_int
                               ELSE m_taps_per_phase,
                 !.count = count,
                 !.produced = l.n,
                 !.calls = @ + 1,
                 !.fed = @ + count,
                 !.made = @ + l.n,
                 !.origin = IF processed_int < total_samples
                            THEN @ + processed_int
                            ELSE r.fed + count]

(***************************************************************************)
(* The signal.  A transmitter sends the VIS header of a code, the line     *)
(* groups of the image when the code is a PD mode, a silent gap, and       *)
(* starts over; the channel may replace a stretch of it by a burst.        *)
(* Symbols: 0..7 preamble tones, 8 leader, 9 break, 10 leader, 11 start    *)
(* bit, 12..18 data bits (LSB first), 19 parity, 20 stop bit, then for     *)
(* group g the six symbols 21+6g .. 26+6g (SYNC, PORCH, Y1, R-Y, B-Y, Y2), *)
(* then the gap.                                                           *)
(***************************************************************************)
\* codes the transmitter of the bounded specification sends
TxCodes == {93, 95, 44}
\* frequency of data symbol s: a fixed test pattern in which the four segments
\* of a group, and the same segment of consecutive groups, all differ
TxData(s) == BLACK_FREQ + 100 * ((s - 21) % 8)
\* the luminance and chrominance tone of a pure grey image
GreyFreq == (BLACK_FREQ + WHITE_FREQ) \div 2
\* frequencies and lengths (samples) of a burst
NoiseFreqs == {0, 1200}
ShortBurst == 2
LongBurst == 13
\* silent gap between two transmissions, 1/100 ms
GapMs == 3000
SymEnd == 0 - 1
\* bursts and user resets begin within this many samples of a symbol's start
GridSamples == 1
\* length of a silence (samples): longer than a line group at ModelRate
SilenceLen == 260

\* the transmitter t sends the line groups of t.lines image lines at most
TxGroups(t) ==
  IF t.code \in DOMAIN GLOBAL_VIS_MAP
  THEN (Min(GLOBAL_VIS_MAP[t.code].height, t.lines) + 1) \div 2
  ELSE 0

TxGapSym(t) == 21 + 6 * TxGroups(t)

TxParity(code) == IF Ones(code) % 2 = 1 THEN 1 ELSE 0

\* the tone of the symbol as transmitted
TxTone(t) ==
  LET s == t.sym
  IN IF s <= 7 THEN DEFAULT_PREAMBLE_TONES[s + 1].frequency
     ELSE IF s = 8 \/ s = 10 THEN VIS_LEADER_BURST_FREQ
     ELSE IF s = 9 THEN VIS_BREAK_FREQ
     ELSE IF s = 11 \/ s = 20 THEN VIS_START_STOP_FREQ
     ELSE IF s <= 18 THEN (IF BitAt(t.code, s - 12) = 1 THEN VIS_LOGIC_1_FREQ
                           ELSE VIS_LOGIC_0_FREQ)
     ELSE IF s = 19 THEN (IF (TxParity(t.code) = 1) # t.flip THEN VIS_LOGIC_1_FREQ
                          ELSE VIS_LOGIC_0_FREQ)
     ELSE IF s = TxGapSym(t) THEN 0
     ELSE IF (s - 21) % 6 = 0 THEN SYNC_FREQ
     ELSE IF (s - 21) % 6 = 1 THEN BLACK_FREQ
     ELSE IF t.grey THEN GreyFreq
     ELSE TxData(s)

\* the frequency received: every tone is off by t.detune, silence is silence
TxFreq(t) == IF TxTone(t) = 0 THEN 0 ELSE TxTone(t) + t.detune

TxDur(t) ==
  LET s == t.sym
  IN IF s <= 7 THEN DEFAULT_PREAMBLE_TONES[s + 1].duration_ms
     ELSE IF s = 8 \/ s = 10 THEN VIS_LEADER_BURST_DURATION_MS
     ELSE IF s = 9 THEN VIS_BREAK_DURATION_MS
     ELSE IF s <= 20 THEN VIS_BIT_DURATION_MS
     ELSE IF s = TxGapSym(t) THEN GapMs
     ELSE IF (s - 21) % 6 = 0 THEN PD_TIMINGS_MAP[t.code].sync_ms
     ELSE IF (s - 21) % 6 = 1 THEN PD_TIMINGS_MAP[t.code].porch_ms
     ELSE PD_TIMINGS_MAP[t.code].segment_ms - t.short

\* the transmitter after one more sample
TxSucc(t) ==
  LET off1 == t.off + Sub
      d == TxDur(t) * t.rate
      n == t.sym + 1
      t1 == [t EXCEPT !.off = off1 - d, !.sym = n]
  IN IF off1 < d THEN {[t EXCEPT !.off = off1]}
     ELSE IF t.sym = 20 /\ ~t.loop THEN {[t1 EXCEPT !.sym = SymEnd]}
     ELSE IF t.sym >= 20 /\ t.sym = TxGapSym(t)
          THEN IF t.runs = 1 THEN {[t1 EXCEPT !.sym = SymEnd]}
               ELSE {[t1 EXCEPT !.sym = 0, !.code = 0, !.off = 0,
                                !.runs = Max(@ - 1, 0)]}
     ELSE IF n >= 12 /\ n <= 18
          THEN {[t1 EXCEPT !.code = @ + b * Pow2(n - 12)] :
                  b \in {b \in {0, 1} :
                           \E c \in t.codes :
                              c % Pow2(n - 11) = t.code + b * Pow2(n - 12)}}
     ELSE {t1}


\* the Decoder under test and its environment
decoderVars == <<dec, vis, pd, tx, ch, faults, resets, ev, log, heard>>

vars == <<dec, vis, pd, tx, ch, faults, resets, ev, log, heard, dcb, fe, twin, calc, rs>>

\* the statics of dc_blocker as the program starts, and for each of the
\* Decoder instances "A" and "B": alone, the statics as they would be had it
\* run alone in its process; out, the value dc_blocker returned to it last
Instances == {"A", "B"}
ZeroDc == [prev_input |-> 0, prev_output |-> 0]
NewDcb ==
  [static |-> ZeroDc,
   alone |-> [i \in Instances |-> ZeroDc],
   out |-> [i \in Instances |-> 0],
   calls |-> [i \in Instances |-> 0]]

\* the transmitter is within the first GridSamples samples of a symbol
TxOnGrid == tx.off < GridSamples * Sub

World == [dec |-> dec, vis |-> vis, pd |-> pd, ev |-> <<>>]

RECURSIVE LogAfter(_, _)
LogAfter(l, es) ==
  IF es = <<>> THEN l
  ELSE IF Head(es).cb = "Reset" THEN LogAfter(<<>>, Tail(es))
  ELSE LogAfter(IF Len(l) < LogCap
                THEN Append(l, [Head(es) EXCEPT !.pixels = <<>>]) ELSE l,
                Tail(es))

NewVis(rate) ==
  VIS_reset([m_state |-> "IDLE", m_sample_rate |-> rate,
             m_state_timer_samples |-> 0, m_preamble_step |-> 0,
             m_error_count |-> 0, m_decoded_vis_bits |-> 0, m_bit_count |-> 0,
             m_bit_freq_accumulator |-> 0, m_bit_sample_count |-> 0,
             m_median_buffer |-> <<>>])

NewPdBounded(rate, mw, mh) ==
  PD_reset([m_current_segment |-> "IDLE", m_sample_rate |-> rate,
            max_width |-> mw, max_height |-> mh,
            m_segment_timer |-> 0, m_current_line_idx |-> 0,
            m_segment_buffer |-> <<>>,
            m_y1_pixels |-> <<>>, m_y2_pixels |-> <<>>,
            m_cr_pixels |-> <<>>, m_cb_pixels |-> <<>>, fresh |-> {},
            m_width |-> Min(PD120ModeConfig.WIDTH, mw),
            m_height |-> Min(PD120ModeConfig.HEIGHT, mh),
            m_timings |-> PDTimings(PD120ModeConfig.SYNC_DURATION_MS,
                                    PD120ModeConfig.PORCH_DURATION_MS,
                                    PD120ModeConfig.SEGMENT_DURATION_MS)])

NewPd(rate) == NewPdBounded(rate, MaxWidth, MaxHeight)

\* the front end of a Decoder that has processed more than
\* DEFAULT_HILBERT_TAPS samples of lead-in, and is called with b samples a time
NewFrontEnd(b) == [est |-> WarmEstimator, cleared |-> FALSE, blk |-> b, pos |-> 0]

\* such a Decoder, with its front end
NewDecoder(rate, lines, b) ==
  [dec |-> [m_state |-> "SEARCHING_VIS", m_current_mode |-> EmptyMode],
   vis |-> NewVis(rate),
   pd |-> NewPdBounded(rate, MaxWidth, lines),
   ev |-> <<>>,
   est |-> WarmEstimator, cleared |-> FALSE, blk |-> b, pos |-> 0]

\* no pure function has been called
NoCall == [op |-> "none", in |-> <<>>, out |-> <<>>, done |-> FALSE]

\* a Decoder at the internal rate has no Resampler
NoResampler ==
  [m_input_rate |-> 0, m_target_rate |-> 0, m_history |-> 0,
   m_output_index_frac |-> 0, count |-> 0, produced |-> 0, calls |-> 0,
   fed |-> 0, made |-> 0, origin |-> 0]

\* a well-formed transmission of the test pattern
PlainTx ==
  [flip |-> FALSE, grey |-> FALSE, short |-> 0, lines |-> MaxHeight, runs |-> 0,
   detune |-> 0]

\* Decoder::Decoder followed by a transmitter at the same rate; o tells what
\* is transmitted: flip, the parity bit is inverted; grey, the image is pure
\* grey; short, every data segment is that much shorter (1/100 ms); lines,
\* the number of image lines; runs, the number of transmissions after which
\* the stream ends (0: it never ends); detune, the offset (Hz) of the
\* receiver's tuning.  b is the size of the calls of
\* process() that feed the twin, c a call of a pure function and r a
\* Resampler, both apart from the Decoder.
InitAll(rate, codes, loop, o, b, c, r) ==
  /\ dec = [m_state |-> "SEARCHING_VIS", m_current_mode |-> EmptyMode]
  /\ vis = NewVis(rate)
  /\ pd = NewPdBounded(rate, MaxWidth, o.lines)
  /\ tx = [sym |-> 0, off |-> 0, code |-> 0,
           rate |-> rate, codes |-> codes, loop |-> loop,
           flip |-> o.flip, grey |-> o.grey, short |-> o.short, lines |-> o.lines,
           runs |-> o.runs, detune |-> o.detune]
  /\ ch = [left |-> 0, freq |-> 0, silent |-> FALSE]
  /\ faults = 0
  /\ resets = 0
  /\ ev = <<>>
  /\ log = <<>>
  /\ heard = <<>>
  /\ dcb = NewDcb
  /\ fe = NewFrontEnd(1)
  /\ twin = NewDecoder(rate, o.lines, b)
  /\ calc = c
  /\ rs = r

InitFed(rate, codes, loop, o, b) ==
  InitAll(rate, codes, loop, o, b, NoCall, NoResampler)

InitEnv(rate, codes, loop, o) == InitFed(rate, codes, loop, o, 1)

InitWith(rate, codes, loop) == InitEnv(rate, codes, loop, PlainTx)

Init == InitWith(ModelRate, TxCodes, TRUE)

\* the modes of the ModeDetected callbacks among es, appended to h
RECURSIVE HeardAfter(_, _)
HeardAfter(h, es) ==
  IF es = <<>> THEN h
  ELSE HeardAfter(IF Head(es).cb = "ModeDetected" /\ Len(h) < LogCap
                  THEN Append(h, Head(es).mode) ELSE h, Tail(es))

\* the decoder after the operation that leaves it as w
Becomes(w) ==
  /\ dec' = w.dec
  /\ vis' = w.vis
  /\ pd' = w.pd
  /\ ev' = w.ev
  /\ log' = LogAfter(log, w.ev)
  /\ UNCHANGED <<dcb, fe, twin, calc, rs>>

\* one iteration of the loop of Decoder::process on frequency f, while the
\* transmitter moves on by one sample
Deliver(f) ==
  LET w == Decoder_process_frequency(World, f)
  IN /\ Becomes(w)
     /\ tx' \in TxSucc(tx)
     /\ heard' = IF tx'.sym = 0 /\ tx.sym # 0 THEN <<>> ELSE HeardAfter(heard, w.ev)

\* the decoder is fed the transmitted frequency
Sample ==
  /\ tx.sym # SymEnd
  /\ ch.left = 0
  /\ Deliver(TxFreq(tx))
  /\ UNCHANGED <<ch, faults, resets>>

\* a burst begins: the decoder is fed the burst frequency instead
BurstStart ==
  /\ tx.sym # SymEnd
  /\ ch.left = 0
  /\ faults < MaxFaults
  /\ TxOnGrid
  /\ \E f \in NoiseFreqs, n \in {ShortBurst, LongBurst} :
        /\ Deliver(f)
        /\ ch' = [left |-> n - 1, freq |-> f, silent |-> FALSE]
  /\ faults' = faults + 1
  /\ UNCHANGED resets

BurstSample ==
  /\ tx.sym # SymEnd
  /\ ch.left > 0
  /\ Deliver(ch.freq)
  /\ ch' = [ch EXCEPT !.left = @ - 1]
  /\ UNCHANGED <<faults, resets>>

\* the user calls Decoder::reset between two calls of process
UserReset ==
  /\ resets < MaxResets
  /\ TxOnGrid
  /\ Becomes(Decoder_reset(World))
  /\ resets' = resets + 1
  /\ UNCHANGED <<tx, ch, faults, heard>>

\* the input falls silent after this sample, for SilenceLen samples: the
\* estimator has no confident frequency for them and returns what its noise
\* gate returns, the last estimate (m_last_freq), or 0.0
SilenceStart ==
  /\ tx.sym # SymEnd
  /\ ch.left = 0
  /\ ~ch.silent
  /\ \E f \in {0, TxFreq(tx)} :
        /\ Deliver(TxFreq(tx))
        /\ ch' = [left |-> SilenceLen, freq |-> f, silent |-> TRUE]
  /\ UNCHANGED <<faults, resets>>

Next == Sample \/ BurstStart \/ BurstSample \/ UserReset

Spec == Init /\ [][Next]_vars

\* the transmitter announces any mode of the table, or the unassigned code 44
InitModes == InitWith(ModelRate, DOMAIN GLOBAL_VIS_MAP \cup {44}, TRUE)

SpecModes == InitModes /\ [][Next]_vars

\* the ideal VIS header of any 7-bit code at the program's internal rate, the
\* stream ending with the stop bit
InitIdeal == InitWith(INTERNAL_SAMPLE_RATE, 0..127, FALSE)

NextIdeal == Sample

SpecIdeal == InitIdeal /\ [][NextIdeal]_vars

\* a transmission that falls silent once, at any sample
InitSilence == InitWith(ModelRate, {95, 44}, TRUE)

NextSilence == Sample \/ SilenceStart \/ BurstSample

SpecSilence == InitSilence /\ [][NextSilence]_vars

\* an ideal pure grey PD120 transmission at the program's internal rate
InitGrey ==
  InitEnv(INTERNAL_SAMPLE_RATE, {PD120ModeConfig.VIS_CODE}, TRUE,
          [PlainTx EXCEPT !.grey = TRUE])

SpecGrey == InitGrey /\ [][NextIdeal]_vars

\* one whole PD120 image at the program's internal rate, every data segment
\* of which is 0.3 ms shorter than nominal
InitDrift ==
  InitEnv(INTERNAL_SAMPLE_RATE, {PD120ModeConfig.VIS_CODE}, TRUE,
          [PlainTx EXCEPT !.short = 30, !.lines = PD120ModeConfig.HEIGHT,
                          !.runs = 1])

SpecDrift == InitDrift /\ [][NextIdeal]_vars

\* the VIS header of any 7-bit code, received on tune or 50 Hz off
DetuneHz == {0 - 50, 0, 50}

InitDetune ==
  \E d \in DetuneHz :
     InitEnv(INTERNAL_SAMPLE_RATE, 0..127, FALSE, [PlainTx EXCEPT !.detune = d])

SpecDetune == InitDetune /\ [][NextIdeal]_vars

\* the same header, sent with the right or with the inverted parity bit
InitParity ==
  \E f \in BOOLEAN :
     InitEnv(INTERNAL_SAMPLE_RATE, 0..127, FALSE, [PlainTx EXCEPT !.flip = f])

SpecParity == InitParity /\ [][NextIdeal]_vars

(***************************************************************************)
(* Two Decoder instances in one process, each fed its own sample stream    *)
(* in calls of process() of one sample; the step follows the sample up to  *)
(* the DC blocker at the head of FrequencyEstimator::process_sample.       *)
(***************************************************************************)
\* sample values (1/1000 of full scale) and calls of process() per instance
Amp == 1000
MaxCalls == 3
SampleValues == {0 - Amp, 0, Amp}

\* instance i processes the sample x
ProcessSampleOf(i, x) ==
  /\ dcb.calls[i] < MaxCalls
  /\ LET st == dc_blocker(dcb.static, x)
          own == dc_blocker(dcb.alone[i], x)
     IN dcb' = [dcb EXCEPT !.static = st,
                           !.alone[i] = own,
                           !.out[i] = st.prev_output,
                           !.calls[i] = @ + 1]
  /\ UNCHANGED decoderVars
  /\ UNCHANGED <<fe, twin, calc, rs>>

ProcessA == \E x \in SampleValues : ProcessSampleOf("A", x)
ProcessB == \E x \in SampleValues : ProcessSampleOf("B", x)

InitShared == InitWith(INTERNAL_SAMPLE_RATE, {PD120ModeConfig.VIS_CODE}, FALSE)

NextShared == ProcessA \/ ProcessB

SpecShared == InitShared /\ [][NextShared]_vars

(***************************************************************************)
(* One sample stream fed to two Decoders: to the Decoder under test in     *)
(* calls of process() of one sample, to the twin in calls of twin.blk      *)
(* samples.                                                                *)
(***************************************************************************)
\* sizes of the twin's calls of process()
BlockSizes == {1, 1024, 4096}

\* two transmissions, each of the unassigned code 44 or of PD120
InitBlocks ==
  \E b \in BlockSizes :
     InitFed(INTERNAL_SAMPLE_RATE, {44, PD120ModeConfig.VIS_CODE}, TRUE,
             [PlainTx EXCEPT !.runs = 2], b)

\* both Decoders process the next sample of the stream
BlockSample ==
  /\ tx.sym # SymEnd
  /\ LET f == TxFreq(tx)
         d == Decoder_process_sample(
                [dec |-> dec, vis |-> vis, pd |-> pd, ev |-> <<>>,
                 est |-> fe.est, cleared |-> fe.cleared,
                 blk |-> fe.blk, pos |-> fe.pos], f)
     IN /\ dec' = d.dec
        /\ vis' = d.vis
        /\ pd' = d.pd
        /\ ev' = d.ev
        /\ log' = LogAfter(log, d.ev)
        /\ fe' = [est |-> d.est, cleared |-> d.cleared, blk |-> d.blk, pos |-> d.pos]
        /\ twin' = Decoder_process_sample(twin, f)
        /\ tx' \in TxSucc(tx)
        /\ heard' = IF tx'.sym = 0 /\ tx.sym # 0 THEN <<>> ELSE HeardAfter(heard, d.ev)
  /\ UNCHANGED <<ch, faults, resets, dcb, calc, rs>>

NextBlocks == BlockSample

SpecBlocks == InitBlocks /\ [][NextBlocks]_vars

(***************************************************************************)
(* The pure functions, each called once on arguments drawn from its        *)
(* domain.                                                                 *)
(***************************************************************************)
Uint8 == 0..255

\* chroma arguments: the extremes, neutral, and the reference levels
ChromaSamples == {0, 16, 128, 240, 255}

\* the Decoder is idle while the pure function is called
InitCall(op, in) ==
  InitAll(INTERNAL_SAMPLE_RATE, {PD120ModeConfig.VIS_CODE}, FALSE, PlainTx, 1,
          [op |-> op, in |-> in, out |-> <<>>, done |-> FALSE], NoResampler)

InitColour ==
  \E Y \in Uint8, Cb \in ChromaSamples, Cr \in ChromaSamples :
     InitCall("ycbcr_to_rgb", <<Y, Cb, Cr>>)

Convert ==
  /\ calc.op = "ycbcr_to_rgb"
  /\ ~calc.done
  /\ calc' = [calc EXCEPT !.out = ycbcr_to_rgb(calc.in[1], calc.in[2], calc.in[3]),
                           !.done = TRUE]
  /\ UNCHANGED decoderVars
  /\ UNCHANGED <<dcb, fe, twin, rs>>

NextColour == Convert

SpecColour == InitColour /\ [][NextColour]_vars

\* frequencies the estimator can return, in Hz: up to half the sample rate
\* either way; a call takes a frequency and one up to MaxStep above it
NyquistHz == INTERNAL_SAMPLE_RATE \div 2
MaxStep == 2

InitPixel ==
  \E f \in (0 - NyquistHz)..NyquistHz, d \in 0..MaxStep :
     InitCall("freq_to_pixel_value", <<f, f + d>>)

ToPixel ==
  /\ calc.op = "freq_to_pixel_value"
  /\ ~calc.done
  /\ calc' = [calc EXCEPT !.out = <<freq_to_pixel_value(calc.in[1]),
                                    freq_to_pixel_value(calc.in[2])>>,
                           !.done = TRUE]
  /\ UNCHANGED decoderVars
  /\ UNCHANGED <<dcb, fe, twin, rs>>

NextPixel == ToPixel

SpecPixel == InitPixel /\ [][NextPixel]_vars

(***************************************************************************)
(* A Resampler to the internal rate, called with blocks of any size and    *)
(* reset at any time.                                                      *)
(***************************************************************************)
\* input rates (Hz), above and below the internal rate
InputRates == {8000, 22050, 44100, 48000}
\* size of a block, and calls of process_block between two resets
MaxCount == 8
MaxBlocks == 3

InitResampler ==
  \E rate \in InputRates :
     InitAll(INTERNAL_SAMPLE_RATE, {PD120ModeConfig.VIS_CODE}, FALSE, PlainTx, 1,
             NoCall, NewResampler(rate, INTERNAL_SAMPLE_RATE))

ResampleBlock ==
  /\ rs.calls < MaxBlocks
  /\ \E count \in 0..MaxCount : rs' = Resampler_process_block(rs, count)
  /\ UNCHANGED decoderVars
  /\ UNCHANGED <<dcb, fe, twin, calc>>

ResamplerReset ==
  /\ rs.calls > 0
  /\ rs' = Resampler_reset(rs)
  /\ UNCHANGED decoderVars
  /\ UNCHANGED <<dcb, fe, twin, calc>>

NextResampler == ResampleBlock \/ ResamplerReset

SpecResampler == InitResampler /\ [][NextResampler]_vars

(***************************************************************************)
(* Properties                                                              *)
(***************************************************************************)
Fired(es, c) == \E i \in 1..Len(es) : es[i].cb = c
IsLine(e) == e.cb = "LineDecoded"
LogLines == SelectSeq(log, IsLine)
LogAt(c) == {i \in 1..Len(log) : log[i].cb = c}
UnknownMode(c) == SSTVMode("Unknown", c, 0, 0, 0, "UNKNOWN")
AllFresh == {"y1", "cr", "cb", "y2"}

\* C1: between two resets of the Decoder no LineDecoded fires before a
\* ModeDetected, and every LineDecoded has exactly one ModeDetected before it.
C1_ModeBeforeLines ==
  \A i \in LogAt("LineDecoded") :
     Cardinality({j \in LogAt("ModeDetected") : j < i}) = 1

C1_Witness ==
  /\ Len(log) >= 2
  /\ log[1].cb = "ModeDetected"
  /\ log[2].cb = "LineDecoded"

\* C2: the line_index values of the LineDecoded callbacks since the last reset
\* are 0, 1, 2, ... in the order they fire, and all of 0..height-1 have fired
\* when ImageComplete fires, also when a line group was lost on the way.
C2_ConsecutiveLines ==
  /\ \A k \in 1..Len(LogLines) : LogLines[k].line_index = k - 1
  /\ LogAt("ImageComplete") # {} => Len(LogLines) = pd.m_height

\* the image completes while the transmitter already sends the next header: a
\* burst cost a line group of the image, and no reset intervened
C2_Witness ==
  /\ Fired(ev, "ImageComplete")
  /\ resets = 0
  /\ faults > 0
  /\ tx.sym <= 20
  /\ Len(LogLines) = pd.m_height

\* C3: 0 <= current_line_idx <= height always, the index never decreases
\* except by a reset, and every LineDecoded carries an index in 0..height-1.
C3_LineIndexRange ==
  /\ [](/\ 0 <= pd.m_current_line_idx
        /\ pd.m_current_line_idx <= pd.m_height
        /\ \A i \in 1..Len(ev) :
              IsLine(ev[i]) => /\ 0 <= ev[i].line_index
                               /\ ev[i].line_index < pd.m_height)
  /\ [][pd'.m_current_line_idx < pd.m_current_line_idx => Fired(ev', "Reset")]_vars

C3_Witness ==
  /\ Fired(ev, "LineDecoded")
  /\ pd.m_current_line_idx = pd.m_height

\* C4: between two resets ImageComplete fires at most once, it has fired
\* exactly when all height lines have been decoded, LineDecoded(height-1) is the
\* callback right before it, and no callback follows it.
C4_ImageCompleteOnce ==
  /\ Cardinality(LogAt("ImageComplete")) <= 1
  /\ \A i \in LogAt("ImageComplete") :
        /\ i = Len(log)
        /\ i > 1
        /\ log[i - 1].cb = "LineDecoded"
        /\ log[i - 1].line_index = pd.m_height - 1
  /\ LogAt("ImageComplete") # {} <=> Len(LogLines) = pd.m_height
  /\ LogAt("ImageComplete") # {} <=> dec.m_state = "IMAGE_COMPLETE"

C4_Witness ==
  /\ LogAt("ImageComplete") # {}
  /\ ev = <<>>

\* C5: a LineDecoded fires only when the Y1, R-Y, B-Y and Y2 vectors have all
\* been stored since the SYNC of the group that emits it.
C5_LinesFromFreshSegments ==
  Fired(ev, "LineDecoded") => pd.fresh = AllFresh

\* a line of a later group, when vectors of an earlier group exist
C5_Witness ==
  /\ \E i \in 1..Len(ev) : IsLine(ev[i]) /\ ev[i].line_index >= 2
  /\ pd.fresh = AllFresh

\* C6: a ModeDetected of a PD mode is the only callback of its step, carries
\* the entry of the VIS map, leaves the demodulator configured with the PD
\* timings of that vis_code and the Decoder in DECODING_IMAGE_DATA; the Decoder
\* enters DECODING_IMAGE_DATA in no other step.
C6_PdModeStartsDecoding ==
  [][/\ \A i \in 1..Len(ev') :
          (ev'[i].cb = "ModeDetected" /\ ev'[i].mode.family = "PD") =>
             /\ Len(ev') = 1
             /\ ev'[i].mode.vis_code \in {93, 95, 96, 97, 98, 99}
             /\ ev'[i].mode = GLOBAL_VIS_MAP[ev'[i].mode.vis_code]
             /\ pd'.m_timings = PD_TIMINGS_MAP[ev'[i].mode.vis_code]
             /\ dec'.m_state = "DECODING_IMAGE_DATA"
             /\ dec'.m_current_mode = ev'[i].mode
     /\ (dec'.m_state = "DECODING_IMAGE_DATA" /\ dec.m_state # "DECODING_IMAGE_DATA") =>
          \E i \in 1..Len(ev') :
             ev'[i].cb = "ModeDetected" /\ ev'[i].mode.family = "PD"
     /\ dec'.m_state # "DECODING_IMAGE_HEADER"]_vars

C6_Witness ==
  /\ ev = <<Event("ModeDetected", GLOBAL_VIS_MAP[97], 0, <<>>, 0, 0)>>
  /\ dec.m_state = "DECODING_IMAGE_DATA"
  /\ pd.m_timings = PDTimings(2000, 208, 24448)

C8_ImageCompleteIdles ==
  [][(dec.m_state = "IMAGE_COMPLETE" /\ resets' = resets) =>
        /\ ev' = <<>>
        /\ dec' = dec
        /\ vis' = vis
        /\ pd' = pd]_vars

C8_Witness ==
  /\ dec.m_state = "IMAGE_COMPLETE"
  /\ ev = <<>>
  /\ tx.sym <= 20

\* C9: a user reset leaves the Decoder in SEARCHING_VIS, the VIS detector in
\* IDLE with timer, preamble step, error count and bit accumulators zero, and
\* the demodulator in IDLE with line index 0, timer 0 and empty buffers.
C9_ResetClears ==
  [][resets' = resets + 1 =>
        /\ dec'.m_state = "SEARCHING_VIS"
        /\ vis'.m_state = "IDLE"
        /\ vis'.m_state_timer_samples = 0
        /\ vis'.m_preamble_step = 0
        /\ vis'.m_error_count = 0
        /\ vis'.m_decoded_vis_bits = 0
        /\ vis'.m_bit_count = 0
        /\ vis'.m_bit_freq_accumulator = 0
        /\ vis'.m_bit_sample_count = 0
        /\ pd'.m_current_segment = "IDLE"
        /\ pd'.m_current_line_idx = 0
        /\ pd'.m_segment_timer = 0
        /\ pd'.m_segment_buffer = <<>>
        /\ pd'.m_y1_pixels = <<>>
        /\ pd'.m_y2_pixels = <<>>
        /\ pd'.m_cr_pixels = <<>>
        /\ pd'.m_cb_pixels = <<>>]_vars

\* a reset in the middle of a line group: the mode was detected in this
\* transmission and the transmitter is inside the group's data segments
C9_Witness ==
  /\ Fired(ev, "Reset")
  /\ resets = 1
  /\ heard # <<>>
  /\ tx.sym > 22
  /\ (tx.sym - 21) % 6 >= 3
  /\ pd.m_y1_pixels = <<>>
  /\ dec.m_state = "SEARCHING_VIS"

C11_ParityErrorResets ==
  /\ [](tx.flip => /\ ev = <<>>
                   /\ log = <<>>
                   /\ heard = <<>>
                   /\ dec.m_state = "SEARCHING_VIS"
                   /\ vis.m_state \notin {"STOP_BIT", "COMPLETE"}
                   /\ tx.sym = SymEnd => vis.m_state = "IDLE")
  /\ [](heard # <<>> => /\ ~tx.flip
                        /\ heard[1].vis_code = tx.code)
  /\ [][(tx.flip /\ vis.m_state = "PARITY_BIT" /\ vis'.m_state # "PARITY_BIT") =>
          /\ vis'.m_state = "IDLE"
          /\ vis'.m_state_timer_samples = 0
          /\ vis'.m_decoded_vis_bits = 0]_vars

\* the header of PD120 with the parity bit inverted, heard to its end
C11_Witness ==
  /\ tx.flip
  /\ tx.sym = SymEnd
  /\ tx.code = 95
  /\ vis.m_state = "IDLE"
  /\ log = <<>>

\* C12: no callback fires on a silent sample, in whichever state the silence
\* begins.
C12_SilenceFiresNothing ==
  [][(ch.silent /\ ch.left > 0) =>
        /\ ~Fired(ev', "ModeDetected")
        /\ ~Fired(ev', "LineDecoded")
        /\ ~Fired(ev', "ImageComplete")]_vars

\* a silence that began inside a line group and is heard as 0 Hz: the group
\* runs to its end on the timers and its lines are delivered
C12_Witness ==
  /\ ch.silent
  /\ ch.left > 0
  /\ ch.left < SilenceLen
  /\ ch.freq = 0
  /\ Fired(ev, "LineDecoded")

InGreyRange(x) == 126 <= x /\ x <= 130

\* C13: on the ideal pure grey PD120 transmission at 11025 Hz every pixel of
\* every LineDecoded, the first group's lines included, has r, g and b in
\* 126..130; all lines of the image are delivered, in order, and then
\* ImageComplete with the image's width and height.
C13_GreyImage ==
  /\ \A i \in 1..Len(ev) :
        IsLine(ev[i]) =>
           \A k \in 1..Len(ev[i].pixels) :
              /\ InGreyRange(ev[i].pixels[k].r)
              /\ InGreyRange(ev[i].pixels[k].g)
              /\ InGreyRange(ev[i].pixels[k].b)
  /\ \A i \in 1..Len(ev) :
        ev[i].cb = "ImageComplete" =>
           /\ Len(LogLines) = pd.m_height
           /\ ev[i].width = pd.m_width
           /\ ev[i].height = pd.m_height
  /\ \A k \in 1..Len(LogLines) : LogLines[k].line_index = k - 1

\* line 0 begins with a black pixel
C13_Witness ==
  \E i \in 1..Len(ev) :
     /\ IsLine(ev[i])
     /\ ev[i].line_index = 0
     /\ ev[i].pixels[1] = [r |-> 0, g |-> 0, b |-> 0]


\* the line group the demodulator is working on, counted from 0
PdGroup == pd.m_current_line_idx \div 2

\* the transmitter's symbol of the Y1 segment of group g
TxY1Sym(g) == 21 + 6 * g + 2

C15_PerInstanceState ==
  \A i \in Instances :
     dcb.calls[i] > 0 => dcb.out[i] = dcb.alone[i].prev_output

\* both instances have processed samples, and instance B, fed silence only,
\* received a non-zero sample from the DC blocker
C15_Witness ==
  /\ dcb.calls["A"] > 0
  /\ dcb.calls["B"] > 0
  /\ dcb.alone["B"] = ZeroDc
  /\ dcb.out["B"] # 0


\* C16: for a Decoder at 11025 Hz the callbacks and their arguments do not
\* depend on how the stream is cut into calls of process(): on every sample
\* of the stream, the Decoder called with one sample a time and the Decoder
\* called with larger blocks fire the same callbacks with the same arguments.
C16_PartitionIndependent == ev = twin.ev

\* fed in single samples the Decoder detects the PD120 transmission that
\* follows the unassigned code; fed in larger blocks it does not
C16_Witness ==
  /\ twin.blk > 1
  /\ Fired(ev, "ModeDetected")
  /\ dec.m_current_mode.vis_code = PD120ModeConfig.VIS_CODE
  /\ twin.ev = <<>>
  /\ twin.dec.m_state = "SEARCHING_VIS"


\* the call of ycbcr_to_rgb on (Y, Cb, Cr) has returned
Converted(Y, Cb, Cr) ==
  calc.op = "ycbcr_to_rgb" /\ calc.done /\ calc.in = <<Y, Cb, Cr>>

Rgb(r, g, b) == [r |-> r, g |-> g, b |-> b]

\* C17 (amended): ycbcr_to_rgb(0, 0, 0) yields r = 0, g = 135, b = 0 after
\* clamping, ycbcr_to_rgb(0, 128, 128) yields r = g = b = 0 and
\* ycbcr_to_rgb(255, 128, 128) yields r = g = b = 255.
C17_BlackAndWhite ==
  /\ Converted(0, 0, 0) => calc.out = Rgb(0, 135, 0)
  /\ Converted(0, 128, 128) => calc.out = Rgb(0, 0, 0)
  /\ Converted(255, 128, 128) => calc.out = Rgb(255, 255, 255)

\* C17 as stated: ycbcr_to_rgb(0, 0, 0) yields r = g = b = 0 after clamping
\* and ycbcr_to_rgb(255, 128, 128) yields r = g = b = 255.
C17_AsStated ==
  /\ Converted(0, 0, 0) => calc.out = Rgb(0, 0, 0)
  /\ Converted(255, 128, 128) => calc.out = Rgb(255, 255, 255)

\* ycbcr_to_rgb(0, 0, 0) has returned, with a green channel above 0
C17_Witness == Converted(0, 0, 0) /\ calc.out.g > 0

\* C18: for pure grey input (Cb = Cr = 128) and every Y in 0..255,
\* ycbcr_to_rgb(Y, 128, 128) yields r = g = b, each within 2 of Y.
C18_GreyRoundTrip ==
  \A Y \in Uint8 :
     Converted(Y, 128, 128) =>
        /\ calc.out.r = calc.out.g
        /\ calc.out.g = calc.out.b
        /\ Abs(calc.out.r - Y) <= 2

\* ycbcr_to_rgb(233, 128, 128) has returned a grey brighter by 20
C18_Witness == Converted(233, 128, 128) /\ calc.out = Rgb(253, 253, 253)


\* C19: freq_to_pixel_value is monotonic non-decreasing in the frequency,
\* returns 0 for every f <= 1500 and 255 for every f >= 2300, and its result
\* always lies in 0..255.
C19_PixelMonotonic ==
  (calc.op = "freq_to_pixel_value" /\ calc.done) =>
     /\ calc.out[1] <= calc.out[2]
     /\ \A k \in 1..2 :
           /\ calc.out[k] \in 0..255
           /\ calc.in[k] <= 1500 => calc.out[k] = 0
           /\ calc.in[k] >= 2300 => calc.out[k] = 255

\* the function has been called on two frequencies inside the range, one Hz
\* apart, across the first step of the staircase
C19_Witness ==
  /\ calc.op = "freq_to_pixel_value"
  /\ calc.done
  /\ calc.in = <<1503, 1504>>
  /\ calc.out = <<0, 1>>


\* floor(count * target_rate / input_rate) for the last call of process_block
ExpectedOut == (rs.count * rs.m_target_rate) \div rs.m_input_rate

\* C20: for every call of process_block, the first one after construction or
\* reset() included, down- and up-sampling alike, the number of output
\* samples is within 1 of floor(count * target_rate / input_rate).
C20_OutputLength ==
  rs.calls > 0 => Abs(rs.produced - ExpectedOut) <= 1

\* the first call after construction or reset(), up-sampling, has returned
\* at least two samples more than floor(count * target_rate / input_rate)
C20_Witness ==
  /\ rs.calls = 1
  /\ rs.m_input_rate < rs.m_target_rate
  /\ rs.produced >= ExpectedOut + 2


\* the frequency the VIS state machine evaluates in the step, and whether
\* the step completes a bit interval
VisFreqNow == get_smoothed_freq(vis'.m_median_buffer)
VisBitEnds ==
  /\ VisFreqNow >= 100
  /\ (vis.m_state_timer_samples + 1) * Sub >= VIS_BIT_DURATION_MS * vis.m_sample_rate

\* the bit that the mean frequency of the interval stands for: 1 below the
\* midpoint 1200 Hz, otherwise 0
MidpointBit ==
  IF vis.m_bit_freq_accumulator + VisFreqNow < 1200 * (vis.m_bit_sample_count + 1)
  THEN 1 ELSE 0

\* C21: every data bit and the parity bit is decided by comparing the mean
\* frequency of the 30 ms bit interval with the midpoint 1200 Hz (below is
\* logic 1, otherwise logic 0); the k-th received data bit is stored at bit
\* position k of the code, and the parity bit so decided is the one checked.
C21_MidpointDecision ==
  [][/\ (vis.m_state = "DATA_BITS" /\ VisBitEnds) =>
          /\ vis'.m_bit_count = vis.m_bit_count + 1
          /\ \A k \in 0..6 :
                BitAt(vis'.m_decoded_vis_bits, k) =
                   IF k = vis.m_bit_count THEN MidpointBit
                   ELSE BitAt(vis.m_decoded_vis_bits, k)
     /\ (vis.m_state = "PARITY_BIT" /\ VisBitEnds) =>
          (vis'.m_state = "STOP_BIT"
             <=> (Ones(vis.m_decoded_vis_bits) + MidpointBit) % 2 = 0)]_vars

\* received 50 Hz high, a header whose parity bit is 1 and follows a data
\* bit 0 has been dropped within the parity bit, all data bits being right
C21_Witness ==
  /\ tx.detune = 50
  /\ tx.sym = 19
  /\ TxParity(tx.code) = 1
  /\ BitAt(tx.code, 6) = 0
  /\ vis.m_state = "IDLE"
  /\ vis.m_bit_count = 0


\* the states of the VIS detector, in their order
VisOrder ==
  <<"IDLE", "PREAMBLE", "LEADER_BURST_1", "BREAK_1200", "LEADER_BURST_2",
    "START_BIT", "DATA_BITS", "PARITY_BIT", "STOP_BIT", "COMPLETE">>

VisRank(s) == CHOOSE i \in 1..Len(VisOrder) : VisOrder[i] = s

\* the states that wait for a tone and tolerate errors, and the tone awaited
TolerantStates ==
  {"PREAMBLE", "LEADER_BURST_1", "BREAK_1200", "LEADER_BURST_2", "START_BIT",
   "STOP_BIT"}

VisExpectedTone ==
  CASE vis.m_state = "PREAMBLE" ->
         DEFAULT_PREAMBLE_TONES[vis.m_preamble_step + 1].frequency
    [] vis.m_state \in {"LEADER_BURST_1", "LEADER_BURST_2"} -> VIS_LEADER_BURST_FREQ
    [] vis.m_state = "BREAK_1200" -> VIS_BREAK_FREQ
    [] OTHER -> VIS_START_STOP_FREQ

\* the step feeds a sample to the VIS detector
VisSampleStep == dec.m_state = "SEARCHING_VIS" /\ tx' # tx

\* C22: in a tolerant tone state the detector stays in the state (or moves on
\* to the next) while the samples further than 60 Hz from the expected tone,
\* counted since the state or preamble tone was entered, are at most 15 ms
\* worth of samples, and resets to Idle on the first sample beyond that
\* budget.
C22_ErrorBudget ==
  [][(VisSampleStep /\ vis.m_state \in TolerantStates) =>
        LET off == ~is_freq_near(VisFreqNow, VisExpectedTone, FREQ_TOLERANCE)
            spent == (vis.m_error_count + 1) * Sub > MAX_ERROR_TIME_MS * vis.m_sample_rate
        IN IF off /\ spent
           THEN vis'.m_state = "IDLE"
           ELSE /\ VisRank(vis'.m_state) \in {VisRank(vis.m_state), VisRank(vis.m_state) + 1}
                /\ off => vis'.m_error_count = vis.m_error_count + 1]_vars

\* a dropout began less than 15 ms ago, inside the header and past its first
\* tone, and the detector is back in Idle
C22_Witness ==
  /\ resets = 0
  /\ ch.freq = 0
  /\ ch.left > 0
  /\ (LongBurst - ch.left) * Sub <= MAX_ERROR_TIME_MS * vis.m_sample_rate
  /\ tx.sym \in 2..20
  /\ vis.m_state = "IDLE"


\* C23: the VIS detector only moves forward through its states in their
\* order, one state at a time; the only other transition is back to Idle, and
\* ModeDetected fires only on the transition from StopBit to Complete.
C23_ForwardOnly ==
  [][/\ \/ vis'.m_state = "IDLE"
        \/ VisRank(vis'.m_state) \in {VisRank(vis.m_state), VisRank(vis.m_state) + 1}
     /\ Fired(ev', "ModeDetected") =>
           (vis.m_state = "STOP_BIT" /\ vis'.m_state = "COMPLETE")]_vars

\* the detector has gone all the way to Complete and fired ModeDetected on
\* the sample that completed the stop bit
C23_Witness ==
  /\ vis.m_state = "COMPLETE"
  /\ vis.m_bit_count = 7
  /\ vis.m_preamble_step = Len(DEFAULT_PREAMBLE_TONES)
  /\ Len(ev) = 1
  /\ ev[1].cb = "ModeDetected"
  /\ ev[1].mode.vis_code = vis.m_decoded_vis_bits


\* ---------------------------------------------------------------------------
\* A glitch inside the first preamble tone
\* ---------------------------------------------------------------------------

\* the longest run of outliers a window of MEDIAN_WINDOW samples outvotes
MaxGlitch == MEDIAN_WINDOW \div 2

GlitchFreqs == {0, 2300}

\* every sample of the window is the tone being transmitted
WindowClean ==
  \A i \in 1..Len(vis.m_median_buffer) : vis.m_median_buffer[i] = TxFreq(tx)

\* one glitch of 1..MaxGlitch samples begins inside the first preamble tone,
\* after at least one sample of the tone
GlitchStart ==
  /\ tx.sym = 0
  /\ ch.left = 0
  /\ faults = 0
  /\ vis.m_median_buffer # <<>>
  /\ WindowClean
  /\ \E f \in GlitchFreqs, n \in 1..MaxGlitch :
        /\ Deliver(f)
        /\ ch' = [left |-> n - 1, freq |-> f, silent |-> FALSE]
  /\ faults' = 1
  /\ UNCHANGED resets

InitGlitch == InitWith(ModelRate, {95}, FALSE)

NextGlitch == Sample \/ GlitchStart \/ BurstSample

SpecGlitch == InitGlitch /\ [][NextGlitch]_vars

\* the raw frequency handed to the detector in this step
RawNow ==
  IF faults' # faults THEN ch'.freq
  ELSE IF ch.left > 0 THEN ch.freq ELSE TxFreq(tx)

\* the last n elements of s (all of s when it has fewer)
LastOf(s, n) ==
  IF Len(s) <= n THEN s ELSE SubSeq(s, Len(s) - n + 1, Len(s))

\* the window is the most recent MEDIAN_WINDOW raw samples, and during the
\* first preamble tone the detector sees the tone and its IDLE timer is not
\* restarted
SeesTone ==
  /\ VisFreqNow = TxFreq(tx)
  /\ vis.m_state = "IDLE" =>
       \/ vis'.m_state = "PREAMBLE"
       \/ vis'.m_state_timer_samples = vis.m_state_timer_samples + 1

EdgeFreqs ==
  {t + s * (FREQ_TOLERANCE - d) : t \in {SYNC_FREQ, BLACK_FREQ}, s \in {0 - 1, 1}, d \in {0, 1}}

\* one sample of the image data is replaced by an edge frequency while the
\* demodulator waits for or sits in the sync pulse
EdgeSample ==
  /\ tx.sym # SymEnd
  /\ ch.left = 0
  /\ faults = 0
  /\ dec.m_state = "DECODING_IMAGE_DATA"
  /\ pd.m_current_segment \in {"IDLE", "SYNC"}
  /\ \E f \in EdgeFreqs :
        /\ Deliver(f)
        /\ ch' = [left |-> 0, freq |-> f, silent |-> FALSE]
  /\ faults' = 1
  /\ UNCHANGED resets

InitEdge ==
  InitEnv(ModelRate, {PD120ModeConfig.VIS_CODE}, TRUE, [PlainTx EXCEPT !.runs = 1])

NextEdge == Sample \/ EdgeSample

SpecEdge == InitEdge /\ [][NextEdge]_vars

\* the demodulator is handed a sample in this step
PdSampleStep == dec.m_state = "DECODING_IMAGE_DATA" /\ tx' # tx

\* the pixel vectors and the segment buffer are as before
PdBuffersKept ==
  /\ pd'.m_segment_buffer = pd.m_segment_buffer
  /\ pd'.m_y1_pixels = pd.m_y1_pixels
  /\ pd'.m_y2_pixels = pd.m_y2_pixels
  /\ pd'.m_cr_pixels = pd.m_cr_pixels
  /\ pd'.m_cb_pixels = pd.m_cb_pixels

\* C25: in IDLE the demodulator goes to SYNC exactly on a sample within (less
\* than) 60 Hz of 1200 Hz; on every other sample it stays in IDLE, emits
\* nothing and keeps the line index and every pixel buffer.
C25_IdleToSync ==
  [][ (PdSampleStep /\ pd.m_current_segment = "IDLE") =>
        IF Abs(RawNow - 1200) < 60
        THEN pd'.m_current_segment = "SYNC"
        ELSE /\ pd'.m_current_segment = "IDLE"
             /\ ev' = <<>>
             /\ pd'.m_current_line_idx = pd.m_current_line_idx
             /\ PdBuffersKept
    ]_vars

\* the first sample handed to the demodulator was exactly 60 Hz below the sync
\* tone and left it in IDLE
C25_Witness ==
  /\ dec.m_state = "DECODING_IMAGE_DATA"
  /\ pd.m_current_segment = "IDLE"
  /\ faults = 1
  /\ ch.freq = SYNC_FREQ - FREQ_TOLERANCE
  /\ pd.m_current_line_idx = 0
  /\ pd.m_y1_pixels = <<>>


\* the state timer as process_frequency reads it in this step, after its
\* increment, in 1/Sub of a sample
PdTimerNow == pd.m_segment_timer + Sub

\* C26: in SYNC the demodulator goes to PORCH exactly when the timer has
\* reached sync_ms worth of samples, or when at least 15 ms have elapsed in
\* SYNC and the sample is within (less than) 60 Hz of 1500 Hz; the timer is
\* zero on entering PORCH either way.
C26_SyncToPorch ==
  [][ (PdSampleStep /\ pd.m_current_segment = "SYNC") =>
        LET timeout == PdTimerNow >= pd.m_timings.sync_ms * pd.m_sample_rate
            smart == /\ PdTimerNow >= 1500 * pd.m_sample_rate
                     /\ Abs(RawNow - 1500) < 60
        IN /\ pd'.m_current_segment = "PORCH" <=> (timeout \/ smart)
           /\ pd'.m_current_segment = "PORCH" => pd'.m_segment_timer = 0
    ]_vars

\* a sample 59 Hz below the porch tone ended the first sync pulse early, while
\* the transmitter was still sending it
C26_Witness ==
  /\ pd.m_current_segment = "PORCH"
  /\ pd.m_segment_timer = 0
  /\ pd.m_current_line_idx = 0
  /\ faults = 1
  /\ ch.freq = BLACK_FREQ - FREQ_TOLERANCE + 1
  /\ tx.sym = 21


DataSegments == {"Y1", "RY", "BY", "Y2"}

\* the position of a data segment in its group
SegIndex(seg) ==
  CASE seg = "Y1" -> 1 [] seg = "RY" -> 2 [] seg = "BY" -> 3 [] OTHER -> 4

\* the least integer not below a / b, for a >= 0 and b > 0
CeilDiv(a, b) == (a + b - 1) \div b

\* ceil(k * segment_samples): the sample, counted from the one that entered
\* Y1, on which the k-th data segment is due to end
SegmentEnd(k) == CeilDiv(k * PdDur(pd, pd.m_timings.segment_ms), Sub)

\* C27: with the overshoot carried, the k-th data segment of a group ends
\* exactly ceil(k * segment_samples) samples after Y1 was entered (each
\* segment buffer, emptied at every boundary, holds exactly the samples
\* between two such boundaries), and after each carry the timer is in [0, 1).
C27_SegmentBoundaries ==
  [][ (PdSampleStep /\ pd.m_current_segment \in DataSegments) =>
        LET k == SegIndex(pd.m_current_segment)
            n == SegmentEnd(k - 1) + Len(pd.m_segment_buffer) + 1
        IN IF pd'.m_current_segment = pd.m_current_segment
           THEN n < SegmentEnd(k)
           ELSE /\ n = SegmentEnd(k)
                /\ pd'.m_segment_buffer = <<>>
                /\ k < 4 =>
                     /\ pd'.m_current_segment = NextSegment(pd.m_current_segment)
                     /\ pd'.m_segment_timer =
                          n * Sub - k * PdDur(pd, pd.m_timings.segment_ms)
                     /\ pd'.m_segment_timer >= 0
                     /\ pd'.m_segment_timer < Sub
    ]_vars

\* Y2 has just begun at the internal rate with a carried remainder of 0.08
\* sample: Y1, R-Y and B-Y took 1341 + 1341 + 1340 = ceil(3 * 1340.64) samples
C27_Witness ==
  /\ pd.m_sample_rate = INTERNAL_SAMPLE_RATE
  /\ pd.m_current_segment = "Y2"
  /\ pd.m_segment_buffer = <<>>
  /\ pd.m_segment_timer * 100 = 8 * Sub
  /\ pd.fresh = {"y1", "cr", "cb"}


\* the demodulator goes from segment a to segment b in this step
PdMoves(a, b) == pd.m_current_segment = a /\ pd'.m_current_segment = b

\* C28: the timer is set to zero on IDLE to SYNC, SYNC to PORCH, PORCH to Y1
\* (where the segment buffer is cleared too) and Y2 to IDLE; on Y1 to RY, RY
\* to BY and BY to Y2 it is reduced by segment_samples instead; Y2 is always
\* left for IDLE, with no remainder.
C28_TimerResets ==
  [][ PdSampleStep =>
        /\ (PdMoves("IDLE", "SYNC") \/ PdMoves("SYNC", "PORCH")) =>
              pd'.m_segment_timer = 0
        /\ PdMoves("PORCH", "Y1") =>
              pd'.m_segment_timer = 0 /\ pd'.m_segment_buffer = <<>>
        /\ (PdMoves("Y1", "RY") \/ PdMoves("RY", "BY") \/ PdMoves("BY", "Y2")) =>
              /\ pd'.m_segment_timer =
                   PdTimerNow - PdDur(pd, pd.m_timings.segment_ms)
              /\ pd'.m_segment_timer # 0
        /\ (pd.m_current_segment = "Y2" /\ pd'.m_current_segment # "Y2") =>
              /\ pd'.m_current_segment = "IDLE"
              /\ pd'.m_segment_timer = 0
    ]_vars

\* the second line group has just been completed: IDLE, timer zero, an empty
\* segment buffer and all four pixel vectors of the group stored
C28_Witness ==
  /\ dec.m_state = "IMAGE_COMPLETE"
  /\ pd.m_current_segment = "IDLE"
  /\ pd.m_segment_timer = 0
  /\ pd.m_segment_buffer = <<>>
  /\ pd.fresh = {"y1", "cr", "cb", "y2"}
  /\ pd.m_current_line_idx = pd.m_height


\* ---------------------------------------------------------------------------
\* resample_segment as a function
\* ---------------------------------------------------------------------------

\* segment buffers of up to MaxSegment samples of black, mid grey and white
MaxSegment == 4

SegFreqs == {BLACK_FREQ, (BLACK_FREQ + WHITE_FREQ) \div 2, WHITE_FREQ}

SegBuffers == UNION {[1..n -> SegFreqs] : n \in 0..MaxSegment}

InitSegment ==
  \E buffer \in SegBuffers, target_count \in 1..MaxWidth :
     InitCall("resample_segment", <<buffer, target_count>>)

Resample ==
  /\ calc.op = "resample_segment"
  /\ ~calc.done
  /\ calc' = [calc EXCEPT !.out = resample_segment(calc.in[1], calc.in[2]),
                           !.done = TRUE]
  /\ UNCHANGED decoderVars
  /\ UNCHANGED <<dcb, fe, twin, rs>>

NextSegmentCall == Resample

SpecSegment == InitSegment /\ [][NextSegmentCall]_vars

\* the frequency at position p = i * len(buffer) / width, interpolated
\* linearly between buffer[floor(p)] and buffer[floor(p) + 1] (the last sample
\* standing in for a neighbour past the end), indices from 0
Interpolated(buffer, i, width) ==
  LET lo == (i * Len(buffer)) \div width
      r == (i * Len(buffer)) % width
      hi == Min(lo + 1, Len(buffer) - 1)
  IN (buffer[lo + 1] * (width - r) + buffer[hi + 1] * r) \div width

\* C29 (as stated): resampling a segment yields exactly width values, the
\* i-th being the pixel value of the frequency interpolated linearly at
\* p = i * len(buffer) / width.
C29_LinearInterpolation ==
  (calc.op = "resample_segment" /\ calc.done /\ calc.in[1] # <<>>) =>
     /\ Len(calc.out) = calc.in[2]
     /\ \A i \in 0..(calc.in[2] - 1) :
          calc.out[i + 1] =
            freq_to_pixel_value(Interpolated(calc.in[1], i, calc.in[2]))

\* three samples, black black white, resampled to two pixels: both are black,
\* the second taken from the sample at floor(1.5) alone
C29_Witness ==
  /\ calc.op = "resample_segment"
  /\ calc.done
  /\ calc.in = <<(<<BLACK_FREQ, BLACK_FREQ, WHITE_FREQ>>), 2>>
  /\ calc.out = <<0, 0>>

\* what the code computes: width values, the i-th being the pixel value of
\* the single sample at floor(i * len(buffer) / width), an index within the
\* buffer
C29_NearestSample ==
  (calc.op = "resample_segment" /\ calc.done /\ calc.in[1] # <<>>) =>
     /\ Len(calc.out) = calc.in[2]
     /\ \A i \in 0..(calc.in[2] - 1) :
          LET idx == (i * Len(calc.in[1])) \div calc.in[2]
          IN /\ idx \in 0..(Len(calc.in[1]) - 1)
             /\ calc.out[i + 1] = freq_to_pixel_value(calc.in[1][idx + 1])


\* the segment that ends with the sample of this step, as pixels
Resampled == resample_segment(Append(pd.m_segment_buffer, RawNow), pd.m_width)

\* the LineDecoded callbacks of this step, as <<line index, pixels>>
LinesNow ==
  LET ls == SelectSeq(ev', IsLine)
  IN [i \in 1..Len(ls) |-> <<ls[i].line_index, ls[i].pixels>>]

\* the line that luma vector Y makes with the chroma vectors Cb and Cr
RgbLine(Y, Cb, Cr) == [x \in 1..pd.m_width |-> ycbcr_to_rgb(Y[x], Cb[x], Cr[x])]

\* C30: the Y1, R-Y and B-Y segments of a group are resampled into the Y1, Cr
\* and Cb vectors, which stay as stored until the group completes; on the
\* sample that completes Y2 the demodulator emits line 2k, whose pixel x is
\* ycbcr_to_rgb(Y1[x], Cb[x], Cr[x]), and then (if it is within the image
\* height) line 2k + 1, whose pixel x is ycbcr_to_rgb(Y2[x], Cb[x], Cr[x]);
\* both lines have width pixels and the same chroma vectors.
C30_LinePair ==
  [][ PdSampleStep =>
        /\ PdMoves("Y1", "RY") => pd'.m_y1_pixels = Resampled
        /\ PdMoves("RY", "BY") =>
              /\ pd'.m_cr_pixels = Resampled
              /\ pd'.m_y1_pixels = pd.m_y1_pixels
        /\ PdMoves("BY", "Y2") =>
              /\ pd'.m_cb_pixels = Resampled
              /\ pd'.m_y1_pixels = pd.m_y1_pixels
              /\ pd'.m_cr_pixels = pd.m_cr_pixels
        /\ (pd.m_current_segment \in DataSegments
              /\ pd'.m_current_segment = pd.m_current_segment) =>
              /\ pd'.m_y1_pixels = pd.m_y1_pixels
              /\ pd'.m_cr_pixels = pd.m_cr_pixels
              /\ pd'.m_cb_pixels = pd.m_cb_pixels
        /\ PdMoves("Y2", "IDLE") =>
              LET idx == pd.m_current_line_idx
                  line1 == <<idx, RgbLine(pd.m_y1_pixels, pd.m_cb_pixels, pd.m_cr_pixels)>>
                  line2 == <<idx + 1, RgbLine(Resampled, pd.m_cb_pixels, pd.m_cr_pixels)>>
              IN /\ idx % 2 = 0
                 /\ idx < pd.m_height
                 /\ Len(line1[2]) = pd.m_width /\ Len(line2[2]) = pd.m_width
                 /\ LinesNow = IF idx + 1 < pd.m_height THEN <<line1, line2>>
                               ELSE <<line1>>
        /\ Fired(ev', "LineDecoded") => PdMoves("Y2", "IDLE")
    ]_vars

\* the first group has just completed: lines 0 and 1 fired in this order, with
\* different luma and with chroma vectors that differ from each other
C30_Witness ==
  /\ Len(ev) = 2
  /\ IsLine(ev[1]) /\ ev[1].line_index = 0
  /\ IsLine(ev[2]) /\ ev[2].line_index = 1
  /\ ev[1].pixels # ev[2].pixels
  /\ pd.m_cr_pixels # pd.m_cb_pixels
  /\ pd.m_current_segment = "IDLE"


\* looping transmissions with one disturbance: a burst of silence or of the
\* sync tone, or one sample at a tolerance edge while the demodulator is in
\* IDLE or SYNC; and user resets
NextNoise == Next \/ EdgeSample

SpecNoise == Init /\ [][NextNoise]_vars

\* C31: a sample handed to a Decoder in DECODING_IMAGE_DATA, whatever its
\* frequency, runs no reset, leaves the Decoder in DECODING_IMAGE_DATA or
\* takes it to IMAGE_COMPLETE, and never lowers the demodulator's line index;
\* any other way out of DECODING_IMAGE_DATA is a user reset().
C31_NoResetWhileDecoding ==
  [][ dec.m_state = "DECODING_IMAGE_DATA" =>
        /\ tx' # tx =>
             /\ ~ResetRan(ev')
             /\ dec'.m_state \in {"DECODING_IMAGE_DATA", "IMAGE_COMPLETE"}
             /\ pd'.m_current_line_idx >= pd.m_current_line_idx
        /\ dec'.m_state \notin {"DECODING_IMAGE_DATA", "IMAGE_COMPLETE"} =>
             /\ resets' = resets + 1
             /\ dec'.m_state = "SEARCHING_VIS"
    ]_vars

\* a burst of silence is being received after the first line group, the sync
\* pulse it began on lost, and the image goes on from line 2
C31_Witness ==
  /\ dec.m_state = "DECODING_IMAGE_DATA"
  /\ resets = 0
  /\ ch.left > 0
  /\ ch.freq = 0
  /\ pd.m_current_segment = "IDLE"
  /\ pd.m_current_line_idx = 2


\* ---------------------------------------------------------------------------
\* The PD demodulator on its own: every sample of the looping transmissions
\* goes to process_frequency, and its callbacks are only recorded
\* ---------------------------------------------------------------------------

PdAloneSample ==
  /\ tx.sym # SymEnd
  /\ LET w == PD_process_frequency(World, TxFreq(tx))
     IN Becomes([w EXCEPT !.dec = dec])
  /\ tx' \in TxSucc(tx)
  /\ UNCHANGED <<ch, faults, resets, heard>>

\* PD120Demodulator::reset, called by the owner between two samples
PdAloneReset ==
  /\ resets < MaxResets
  /\ TxOnGrid
  /\ Becomes([World EXCEPT !.pd = PD_reset(@),
                           !.ev = <<Event("Reset", EmptyMode, 0, <<>>, 0, 0)>>])
  /\ resets' = resets + 1
  /\ UNCHANGED <<tx, ch, faults, heard>>

InitAlone == InitWith(ModelRate, {PD120ModeConfig.VIS_CODE}, TRUE)

NextAlone == PdAloneSample \/ PdAloneReset

SpecAlone == InitAlone /\ [][NextAlone]_vars

\* C32: the demodulator on its own fires ImageComplete at most once between
\* two reset() calls, whatever is fed to process_frequency after the line
\* index has reached the height.
C32_ImageCompleteOnceAlone == Cardinality(LogAt("ImageComplete")) <= 1

\* ImageComplete has fired a second time since the last reset, with the line
\* index at the height and no line in between
C32_Witness ==
  /\ pd.m_current_line_idx = pd.m_height
  /\ \E i \in LogAt("ImageComplete") :
        i > 1 /\ log[i - 1].cb = "ImageComplete"


(***************************************************************************)
(* FrequencyEstimator::process_sample from step 4 on, given the analytic   *)
(* sample (i_val, q) that the DC blocker, the AGC and the Hilbert filter   *)
(* produced for the input sample.  Amplitudes are in 1/10000 of full       *)
(* scale, so mag_sq is in units of 1e-8 and the noise gate 1e-7 is 10.     *)
(* The analytic samples of the model lie on the axes, so the phase step is *)
(* a whole number of quarter turns and frequencies are kept in 1/4 Hz.     *)
(***************************************************************************)
NoiseGate == 10

\* std::atan2(cross, dot) in quarter turns, for cross = 0 or dot = 0
Atan2Quarters(cross, dot) ==
  IF cross > 0 THEN 1
  ELSE IF cross < 0 THEN 0 - 1
  ELSE IF dot < 0 THEN 2 ELSE 0

NewIqEstimator(rate) ==
  [m_sample_rate |-> rate, m_last_freq |-> 0, m_prev_i |-> 0, m_prev_q |-> 0,
   m_samples_processed |-> 0]

\* the estimator after the sample and the frequency returned for it
process_sample_iq(st, i_val, q) ==
  LET n == Min(st.m_samples_processed + 1, DEFAULT_HILBERT_TAPS + 1)
      kept == [st EXCEPT !.m_samples_processed = n,
                         !.m_prev_i = i_val, !.m_prev_q = q]
      mag_sq == i_val * i_val + q * q
      dot == i_val * st.m_prev_i + q * st.m_prev_q
      cross == q * st.m_prev_i - i_val * st.m_prev_q
      raw_freq == Atan2Quarters(cross, dot) * st.m_sample_rate
  IN IF n <= DEFAULT_HILBERT_TAPS THEN [st |-> kept, freq |-> 0]
     ELSE IF mag_sq < NoiseGate THEN [st |-> kept, freq |-> st.m_last_freq]
     ELSE [st |-> [kept EXCEPT !.m_last_freq = raw_freq], freq |-> raw_freq]

\* analytic samples: full scale, below the noise gate, or nothing, at the
\* four phases
Full == 10000
Faint == 2

IqSamples ==
  {<<a * c[1], a * c[2]>> : a \in {0, Faint, Full},
                            c \in {<<1, 0>>, <<0, 1>>, <<0 - 1, 0>>, <<0, 0 - 1>>}}

InitEstimator ==
  InitAll(INTERNAL_SAMPLE_RATE, {PD120ModeConfig.VIS_CODE}, FALSE, PlainTx, 1,
          [op |-> "process_sample", in |-> <<0, 0>>, out |-> 0, done |-> FALSE,
           st |-> NewIqEstimator(INTERNAL_SAMPLE_RATE)], NoResampler)

EstimateSample ==
  /\ calc.op = "process_sample"
  /\ \E z \in IqSamples :
        LET r == process_sample_iq(calc.st, z[1], z[2])
        IN calc' = [calc EXCEPT !.in = z, !.out = r.freq, !.st = r.st,
                                !.done = TRUE]
  /\ UNCHANGED decoderVars
  /\ UNCHANGED <<dcb, fe, twin, rs>>

NextEstimator == EstimateSample

SpecEstimator == InitEstimator /\ [][NextEstimator]_vars

\* the sample of this step is past the warm-up and below the noise gate
GatedNow ==
  /\ calc.op = "process_sample"
  /\ calc.st.m_samples_processed >= DEFAULT_HILBERT_TAPS
  /\ calc'.in[1] * calc'.in[1] + calc'.in[2] * calc'.in[2] < NoiseGate

\* C33: for a sample whose magnitude is below the noise gate the estimator
\* returns the last frequency and leaves I_prev, Q_prev and the last
\* frequency as they were.
C33_GateKeepsState ==
  [][ GatedNow =>
        /\ calc'.out = calc.st.m_last_freq
        /\ calc'.st.m_last_freq = calc.st.m_last_freq
        /\ calc'.st.m_prev_i = calc.st.m_prev_i
        /\ calc'.st.m_prev_q = calc.st.m_prev_q
    ]_vars

\* a warm estimator that last measured a quarter turn per sample has taken a
\* faint sample: the last frequency is kept, the stored pair is the faint one
C33_Witness ==
  /\ calc.op = "process_sample"
  /\ calc.st.m_samples_processed > DEFAULT_HILBERT_TAPS
  /\ calc.in = <<0, Faint>>
  /\ calc.out = INTERNAL_SAMPLE_RATE
  /\ calc.st.m_last_freq = INTERNAL_SAMPLE_RATE
  /\ calc.st.m_prev_i = 0
  /\ calc.st.m_prev_q = Faint

\* what the code does for such a sample: the last frequency is returned and
\* kept, and the stored pair becomes the gated sample
C33_GateStoresSample ==
  [][ GatedNow =>
        /\ calc'.out = calc.st.m_last_freq
        /\ calc'.st.m_last_freq = calc.st.m_last_freq
        /\ calc'.st.m_prev_i = calc'.in[1]
        /\ calc'.st.m_prev_q = calc'.in[2]
    ]_vars


\* C34: reset() leaves the Decoder as its constructor does: the state is
\* SEARCHING_VIS with no mode, the VIS detector is a new one (its median
\* window empty), and the demodulator has no line, segment or pixel history.
C34_ResetIsFresh ==
  [][ resets' = resets + 1 =>
        /\ dec' = [m_state |-> "SEARCHING_VIS", m_current_mode |-> EmptyMode]
        /\ vis' = NewVis(vis.m_sample_rate)
        /\ pd' = PD_reset(pd)
        /\ pd'.m_current_line_idx = 0
        /\ pd'.m_segment_buffer = <<>>
    ]_vars

\* a reset in the course of a transmission has just run: the detector is in
\* IDLE with all counters zero and a median window full of earlier samples
C34_Witness ==
  /\ resets = 1
  /\ ev # <<>> /\ ev[Len(ev)].cb = "Reset"
  /\ tx.sym > 0
  /\ vis.m_state = "IDLE"
  /\ vis.m_state_timer_samples = 0
  /\ Len(vis.m_median_buffer) = MEDIAN_WINDOW
  /\ \E i \in 1..MEDIAN_WINDOW : vis.m_median_buffer[i] > 0


\* ---------------------------------------------------------------------------
\* The Resampler on a stream cut into blocks, down to a sixteenth of the rate
\* ---------------------------------------------------------------------------

StreamRates == {8000, 48000, 192000}

InitStream ==
  \E rate \in StreamRates :
     InitAll(INTERNAL_SAMPLE_RATE, {PD120ModeConfig.VIS_CODE}, FALSE, PlainTx, 1,
             NoCall, NewResampler(rate, INTERNAL_SAMPLE_RATE))

NextStream == ResampleBlock \/ ResamplerReset

SpecStream == InitStream /\ [][NextStream]_vars

\* the number of samples one call of process_block on n input samples
\* returns after reset(): an output for every k with floor(k * ratio) <= n
WholeStream(n) == CeilDiv((n + 1) * rs.m_target_rate, rs.m_input_rate)

\* C35: however the stream is cut into blocks, the calls of process_block
\* have together returned what one call on the whole stream returns: as many
\* samples, the next one due at the same position of the stream
\* (made * ratio), and the history is the tail of the stream from the
\* position of the head on, no sample skipped or repeated.
C35_Streaming ==
  /\ rs.calls > 0 => rs.made = WholeStream(rs.fed)
  /\ rs.origin * rs.m_target_rate + rs.m_output_index_frac
       = rs.made * rs.m_input_rate
  /\ rs.origin + rs.m_history = m_taps_per_phase + rs.fed

\* 192000 Hz in blocks of one sample: after the second call two samples have
\* been returned where one call on both samples returns one
C35_Witness ==
  /\ rs.m_input_rate = 192000
  /\ rs.calls = 2
  /\ rs.fed = 2
  /\ rs.made = 2
  /\ WholeStream(2) = 1

\* what holds: for input rates below 16 times the target rate the calls are
\* a streaming operator
C35_StreamingBelow16 ==
  rs.m_input_rate < m_taps_per_phase * rs.m_target_rate =>
     /\ rs.calls > 0 => rs.made = WholeStream(rs.fed)
     /\ rs.origin * rs.m_target_rate + rs.m_output_index_frac
          = rs.made * rs.m_input_rate
     /\ rs.origin + rs.m_history = m_taps_per_phase + rs.fed


\* ---------------------------------------------------------------------------
\* The way back to IDLE
\* ---------------------------------------------------------------------------

\* ceil(sync samples) + ceil(porch samples) + ceil(4 * segment samples)
GroupBound(p) ==
  CeilDiv(PdDur(p, p.m_timings.sync_ms), Sub)
    + CeilDiv(PdDur(p, p.m_timings.porch_ms), Sub)
    + CeilDiv(4 * PdDur(p, p.m_timings.segment_ms), Sub)

\* the samples after which the demodulator is in IDLE at the latest: what is
\* left of the segment by its timer, and the whole of every segment after it
SamplesLeft(p) ==
  LET seg == p.m_current_segment
      data == CeilDiv(4 * PdDur(p, p.m_timings.segment_ms), Sub)
  IN CASE seg = "IDLE" -> 0
       [] seg = "SYNC" ->
            CeilDiv(PdDur(p, p.m_timings.sync_ms) - p.m_segment_timer, Sub)
              + CeilDiv(PdDur(p, p.m_timings.porch_ms), Sub) + data
       [] seg = "PORCH" ->
            CeilDiv(PdDur(p, p.m_timings.porch_ms) - p.m_segment_timer, Sub) + data
       [] OTHER ->
            data - CeilDiv((SegIndex(seg) - 1) * PdDur(p, p.m_timings.segment_ms)
                             + p.m_segment_timer, Sub)

\* C36: outside IDLE the demodulator is at most ceil(sync) + ceil(porch) +
\* ceil(4 * segment) samples from IDLE and at least one; every sample it is
\* handed, whatever its frequency, takes it to IDLE or at least one sample
\* nearer, and nothing but a sample or a reset changes it: no state can hold
\* it while samples arrive.
C36_BackToIdle ==
  [][ pd.m_current_segment # "IDLE" =>
        /\ SamplesLeft(pd) \in 1..GroupBound(pd)
        /\ \/ pd'.m_current_segment = "IDLE"
           \/ /\ PdSampleStep
              /\ SamplesLeft(pd') < SamplesLeft(pd)
           \/ /\ ~PdSampleStep
              /\ pd' = pd ]_vars

\* a group damaged by a burst is one sample from the end of Y2: the next
\* sample ends it
C36_Witness ==
  /\ dec.m_state = "DECODING_IMAGE_DATA"
  /\ pd.m_current_segment = "Y2"
  /\ SamplesLeft(pd) = 1
  /\ ch.left > 0
  /\ ch.freq # 0


\* ---------------------------------------------------------------------------
\* Transmissions with one sample at an edge of the abort band of the sync pulse
\* ---------------------------------------------------------------------------

\* frequencies just inside and just outside twice FREQ_TOLERANCE of the sync
\* tone
AbortFreqs ==
  {SYNC_FREQ + s * (2 * FREQ_TOLERANCE + d) : s \in {0 - 1, 1}, d \in {0, 1}}

\* one sample of the sync pulse is replaced by one of them
AbortSample ==
  /\ tx.sym # SymEnd
  /\ ch.left = 0
  /\ faults = 0
  /\ dec.m_state = "DECODING_IMAGE_DATA"
  /\ pd.m_current_segment = "SYNC"
  /\ \E f \in AbortFreqs :
        /\ Deliver(f)
        /\ ch' = [left |-> 0, freq |-> f, silent |-> FALSE]
  /\ faults' = 1
  /\ UNCHANGED resets

NextAbort == Next \/ EdgeSample \/ AbortSample

SpecAbort == Init /\ [][NextAbort]_vars

\* C37: the demodulator leaves a state other than IDLE for IDLE only on a
\* reset, on the sample that ends Y2, or in SYNC on a sample more than 120 Hz
\* from 1200 Hz that arrives before 5 ms of SYNC have passed; any other
\* sample leaves it where it is or takes it to the next segment of the group.
C37_AbortOnlyEarlyInSync ==
  [][ pd.m_current_segment # "IDLE" /\ pd'.m_current_segment # pd.m_current_segment =>
        IF pd'.m_current_segment = "IDLE"
        THEN \/ resets' = resets + 1
             \/ /\ PdSampleStep
                /\ pd.m_current_segment = "Y2"
                /\ PdTimerNow >= PdDur(pd, pd.m_timings.segment_ms)
             \/ /\ PdSampleStep
                /\ pd.m_current_segment = "SYNC"
                /\ Abs(RawNow - SYNC_FREQ) > 120
                /\ PdTimerNow < PdDur(pd, 500)
                /\ pd'.m_current_line_idx = pd.m_current_line_idx
        ELSE /\ PdSampleStep
             /\ \/ PdMoves("SYNC", "PORCH")
                \/ PdMoves("PORCH", "Y1")
                \/ PdMoves("Y1", "RY")
                \/ PdMoves("RY", "BY")
                \/ PdMoves("BY", "Y2") ]_vars

\* the sync pulse of the second line group was aborted by a sample 121 Hz
\* above the sync tone: the transmitter is two samples or more into the pulse
\* and the demodulator is in IDLE
C37_Witness ==
  /\ dec.m_state = "DECODING_IMAGE_DATA"
  /\ pd.m_current_segment = "IDLE"
  /\ pd.m_current_line_idx = 2
  /\ faults = 1
  /\ ch.freq = SYNC_FREQ + 2 * FREQ_TOLERANCE + 1
  /\ tx.sym = 21 + 6
  /\ tx.off >= 2 * Sub


\* ---------------------------------------------------------------------------
\* The VIS detector of a searching Decoder
\* ---------------------------------------------------------------------------

\* C38: between two samples the VIS detector is in COMPLETE only while the
\* Decoder is in DECODING_IMAGE_DATA or IMAGE_COMPLETE, never while it is in
\* SEARCHING_VIS.
C38_SearchingNeverComplete ==
  /\ dec.m_state = "SEARCHING_VIS" => vis.m_state # "COMPLETE"
  /\ vis.m_state = "COMPLETE" =>
       dec.m_state \in {"DECODING_IMAGE_DATA", "IMAGE_COMPLETE"}

\* after the stop bit of a VIS code that GLOBAL_VIS_MAP does not hold the
\* Decoder is searching, no mode set, and the detector is in COMPLETE
C38_Witness ==
  /\ dec.m_state = "SEARCHING_VIS"
  /\ dec.m_current_mode = EmptyMode
  /\ vis.m_state = "COMPLETE"
  /\ tx.code \notin DOMAIN GLOBAL_VIS_MAP
  /\ resets = 0
  /\ faults = 0

\* what holds: a detector in COMPLETE under a searching Decoder was reset by
\* handle_mode_detected before process_frequency marked it COMPLETE, and the
\* Decoder holds no mode
C38_CompleteAfterUnknown ==
  dec.m_state = "SEARCHING_VIS" /\ vis.m_state = "COMPLETE" =>
     /\ dec.m_current_mode = EmptyMode
     /\ vis.m_decoded_vis_bits = 0
     /\ vis.m_bit_count = 0
     /\ vis.m_preamble_step = 0


\* ---------------------------------------------------------------------------
\* Callbacks of the user that call Decoder::reset
\* ---------------------------------------------------------------------------

\* the callbacks that reset: mode-detected, image-complete, or both
CallbackChoices ==
  {<<"ModeDetected">>, <<"ImageComplete">>, <<"ModeDetected", "ImageComplete">>}

InitCallbacks ==
  \E cbs \in CallbackChoices :
     InitAll(ModelRate, TxCodes, TRUE, PlainTx, 1,
             [op |-> "callbacks", in |-> cbs, out |-> <<>>, done |-> FALSE],
             NoResampler)

SpecCallbacks == InitCallbacks /\ [][Next]_vars

\* a callback of the user that resets was invoked in the step that made es
ResetInCallback(es) ==
  \E i \in DOMAIN es : UserResetsIn(es[i].cb)

\* C39: after a sample on which a callback of the user has called reset(),
\* the Decoder is in SEARCHING_VIS and the VIS detector is in IDLE: neither
\* the handler that invoked the callback nor what runs after it undoes the
\* reset.
C39_CallbackResetStands ==
  [][ ResetInCallback(ev') =>
        /\ dec'.m_state = "SEARCHING_VIS"
        /\ vis'.m_state = "IDLE" ]_vars

\* the case of the image-complete callback alone
C39_ImageCompleteResetStands ==
  [][ (\E i \in DOMAIN ev' : ev'[i].cb = "ImageComplete") /\ UserResetsIn("ImageComplete") =>
        /\ dec'.m_state = "SEARCHING_VIS"
        /\ vis'.m_state = "IDLE" ]_vars

\* the image-complete callback has called reset(): the demodulator and the
\* detector are as reset() left them and the Decoder is in IMAGE_COMPLETE
C39_Witness ==
  /\ UserResetsIn("ImageComplete")
  /\ ~UserResetsIn("ModeDetected")
  /\ ev # <<>>
  /\ ev[Len(ev)].cb = "Reset"
  /\ \E i \in DOMAIN ev : ev[i].cb = "ImageComplete"
  /\ dec.m_state = "IMAGE_COMPLETE"
  /\ dec.m_current_mode = EmptyMode
  /\ vis.m_state = "IDLE"
  /\ pd.m_current_line_idx = 0


\* ---------------------------------------------------------------------------
\* The counters of the VIS detector
\* ---------------------------------------------------------------------------

\* 0 <= bit count <= 7, 0 <= decoded code <= 127, and in PREAMBLE the step
\* indexes one of the tones after the first
VisCountersOf(v) ==
  /\ v.m_bit_count \in 0..7
  /\ v.m_decoded_vis_bits \in 0..127
  /\ v.m_state = "PREAMBLE" =>
       v.m_preamble_step \in 1..(Len(DEFAULT_PREAMBLE_TONES) - 1)

\* C40: the bit counter, the decoded code and the preamble step are within
\* their ranges before and after every step; the detector enters DATA_BITS
\* with the bit counter and the decoded code at 0; and the code of a
\* ModeDetected callback is the code of the 7 bits counted since then.
C40_VisFraming ==
  [][ /\ VisCountersOf(vis)
      /\ VisCountersOf(vis')
      /\ Len(DEFAULT_PREAMBLE_TONES) - 1 = 7
      /\ vis.m_state # "DATA_BITS" /\ vis'.m_state = "DATA_BITS" =>
           /\ vis.m_state = "START_BIT"
           /\ vis'.m_bit_count = 0
           /\ vis'.m_decoded_vis_bits = 0
      /\ Fired(ev', "ModeDetected") =>
           /\ vis.m_state = "STOP_BIT"
           /\ vis.m_bit_count = 7
           /\ \A i \in DOMAIN ev' :
                 ev'[i].cb = "ModeDetected" =>
                    ev'[i].mode.vis_code = vis.m_decoded_vis_bits ]_vars

\* the detector has just entered DATA_BITS, after a reset of the Decoder by
\* the user: the counter and the code are 0
C40_Witness ==
  /\ vis.m_state = "DATA_BITS"
  /\ vis.m_state_timer_samples = 0
  /\ vis.m_bit_count = 0
  /\ vis.m_decoded_vis_bits = 0
  /\ vis.m_preamble_step = Len(DEFAULT_PREAMBLE_TONES)
  /\ resets = 1

====
